---- MODULE Spec2Model ----
(***************************************************************************)
(* A model of the imxrt-dma driver core: transfer descriptors, the channel *)
(* register operations of the eDMA / eDMA3 / eDMA4 generations, the        *)
(* peripheral scheduling helpers and the per-channel completion cell.      *)
(*                                                                         *)
(* Machine words.  TLC integers are 32-bit signed, so a u32 / usize value  *)
(* is held as two 16-bit limbs <<hi, lo>> and an i32 as a plain integer.   *)
(* Bit-mask registers (ERQ, ERR, INT, ES, CSR, ...) are held as the set of *)
(* the bit positions that are 1.                                           *)
(***************************************************************************)
EXTENDS Integers, Sequences, FiniteSets, TLC

VARIABLES
    xin,        \* inputs of one descriptor construction (SpecTransfer)
    xout,       \* its outcome: Idle, None, Some(transfer) or Panic
    kind,       \* the DMA controller's register layout: eDMA, or eDMA3/eDMA4
    tcd,        \* per channel: the transfer control descriptor
    ERQ,        \* eDMA: enable request register (set of channels)
    ERR,        \* eDMA: error register (set of channels)
    INT,        \* eDMA: interrupt request register (set of channels)
    HRS,        \* hardware request status (set of channels)
    ES,         \* the controller's error status register (set of bits)
    chan,       \* eDMA3/eDMA4, per channel: CSR, ES, INT (sets of bits), MUX
    chcfg,      \* eDMA: per channel, the DMAMUX configuration (set of bits)
    periph,     \* the peripheral's DMA request generation is enabled
    pc,         \* the task: "idle", or the next step of a scheduling helper
    call,       \* the helper call in progress or last made
    log,        \* the channel methods and hooks that call has run, in order
    es,         \* the helper's local `es`
    ret,        \* what the last helper call returned
    last,       \* the last step taken: [op, ch, by]
    live,       \* the Channel values that exist, in order of construction
    aliased,    \* a Channel was constructed for an index that had a live one
    halted,     \* a constructor panicked
    cell,       \* per channel: the completion cell, {} or {the waiting consumer}
    cons,       \* per consumer: its place in the wait, and what reached it
    isr,        \* per channel: the interrupt path's position
    sig,        \* per channel: signals sent for the transfer in progress
    mux,        \* one set_channel_configuration call: its arguments and outcome
    mem         \* the memory-copy example: the words of its two buffers, by address

xferVars == <<xin, xout>>

regVars == <<tcd, ERQ, ERR, INT, HRS, ES, chan, chcfg>>

taskVars == <<periph, pc, call, log, es, ret>>

mainVars == <<kind, regVars, taskVars, last>>

allocVars == <<live, aliased, halted>>

wakerVars == <<cell, cons, isr, sig>>

muxVars == <<mux>>

\* what the actions of each specification leave alone
restOfMain == <<xferVars, allocVars, wakerVars, muxVars, mem>>

restOfXfer == <<mainVars, allocVars, wakerVars, muxVars, mem>>

restOfAlloc == <<xferVars, kind, regVars, taskVars, wakerVars, muxVars, mem>>

restOfWaker == <<kind, taskVars, last, xferVars, allocVars, muxVars, mem>>

restOfMux == <<xferVars, regVars, taskVars, last, allocVars, wakerVars, mem>>

vars == <<xferVars, mainVars, allocVars, wakerVars, muxVars, mem>>

-----------------------------------------------------------------------------
(* Word arithmetic *)

Limb == 2^16

\* usize and u32 are 32 bits wide on the Cortex-M targets of the driver
UsizeBits == 32

\* Largest element count offset added to a power of two when inputs are drawn
MaxDelta == 3

\* Number of elements a working address is advanced one by one
MaxWalk == 4

U32(hi, lo) == <<hi, lo>>

Pow2U32(k) == IF k < 16 THEN U32(0, 2^k) ELSE U32(2^(k - 16), 0)

\* the usize of a natural number below 2^31
UsizeOf(n) == U32(n \div Limb, n % Limb)

\* x + d (mod 2^32) for a small natural d
AddSmallU32(x, d) ==
    LET lo == x[2] + d
        hi == x[1] + (lo \div Limb)
    IN  U32(hi % Limb, lo % Limb)

\* x + y (mod 2^32)
AddU32(x, y) ==
    LET lo == x[2] + y[2]
        hi == x[1] + y[1] + (lo \div Limb)
    IN  U32(hi % Limb, lo % Limb)

\* usize multiplication x * e for a small e: the wrapped 32-bit product and
\* the carry out of bit 31 (non-zero exactly when the product overflows)
MulU32(x, e) ==
    LET lo == x[2] * e
        hi == x[1] * e + (lo \div Limb)
    IN  [val |-> U32(hi % Limb, lo % Limb), carry |-> hi \div Limb]

RECURSIVE BitLen(_)
BitLen(n) == IF n = 0 THEN 0 ELSE 1 + BitLen(n \div 2)

RECURSIVE PopCount(_)
PopCount(n) == IF n = 0 THEN 0 ELSE (n % 2) + PopCount(n \div 2)

\* usize::leading_zeros
leading_zeros(x) ==
    IF x[1] # 0 THEN 16 - BitLen(x[1]) ELSE UsizeBits - BitLen(x[2])

\* faulty variant: the x & (x - 1) == 0 test, which also accepts 0
is_power_of_two_AcceptsZero(x) == PopCount(x[1]) + PopCount(x[2]) <= 1

\* usize::is_power_of_two: exactly one bit set
is_power_of_two(x) == PopCount(x[1]) + PopCount(x[2]) = 1

\* `as i32`: the two's complement reading of a 32-bit word
AsI32(x) ==
    IF x[1] >= Limb \div 2 THEN (x[1] - Limb) * Limb + x[2]
                           ELSE x[1] * Limb + x[2]

\* the 32-bit word of an i32
OfI32(v) ==
    IF v >= 0 THEN U32(v \div Limb, v % Limb)
              ELSE LET m == -(v + 1)   \* 0 .. 2^31 - 1
                   IN  U32(Limb - 1 - (m \div Limb), Limb - 1 - (m % Limb))

MinI32 == (0 - (Limb \div 2)) * Limb

\* i32::wrapping_neg
wrapping_neg(v) == IF v = MinI32 THEN MinI32 ELSE 0 - v

-----------------------------------------------------------------------------
(* Transfer descriptors *)

\* size_of::<E>() of the element types u8, u16, u32, u64
ElementSizes == {1, 2, 4, 8}

TransferOf(address, offset, modulo, adj) ==
    [address |-> address, offset |-> offset, modulo |-> modulo,
     last_address_adjustment |-> adj]

\* faulty variant: the descriptor of a register walks like a buffer of bytes
hardware_Strides(address) ==
    [tag |-> "Some", transfer |-> TransferOf(address, 1, 0, 0)]

\* Transfer::hardware
hardware(address) == [tag |-> "Some", transfer |-> TransferOf(address, 0, 0, 0)]

\* faulty variant: the adjustment counts elements, not bytes
buffer_linear_last_Elements(len, esize) == wrapping_neg(AsI32(len))

\* Transfer::buffer_linear.  checks: the build has overflow checks on
\* (a debug profile), so an overflowing usize multiplication panics.
buffer_linear_last(len, esize) == wrapping_neg(AsI32(MulU32(len, esize).val))

buffer_linear(ptr, len, esize, checks) ==
    IF checks /\ MulU32(len, esize).carry # 0
    THEN [tag |-> "Panic"]
    ELSE [tag |-> "Some",
          transfer |-> TransferOf(ptr, esize, 0, buffer_linear_last(len, esize))]

\* faulty variant: the modulo is taken from the capacity in elements, not in bytes
buffer_circular_modulo_Elements(capacity, esize) ==
    (31 - leading_zeros(capacity)) % Limb

\* `31 - (..).leading_zeros() as u16`: a u16 subtraction
buffer_circular_modulo(capacity, esize) ==
    (31 - leading_zeros(MulU32(capacity, esize).val)) % Limb

\* Transfer::buffer_circular
buffer_circular(start, capacity, esize, checks) ==
    IF ~is_power_of_two(capacity)
    THEN [tag |-> "None"]
    ELSE IF checks /\ (MulU32(capacity, esize).carry # 0
                       \/ leading_zeros(MulU32(capacity, esize).val) > 31)
    THEN [tag |-> "Panic"]
    ELSE [tag |-> "Some",
          transfer |-> TransferOf(start, esize,
                                  buffer_circular_modulo(capacity, esize), 0)]

\* ATTR::MOD: a 5-bit field
MOD_mask == 2^5 - 1

\* The DMA engine's address arithmetic: a signed offset added to the 32-bit
\* working address, modulo 2^32
AddressAdjust(addr, v) == AddU32(addr, OfI32(v))

RECURSIVE AddressWalk(_, _, _)
AddressWalk(addr, stride, n) ==
    IF n = 0 THEN addr ELSE AddressWalk(AddressAdjust(addr, stride), stride, n - 1)

-----------------------------------------------------------------------------
(* Registers *)

\* the two register layouts: channel/edma.rs and channel/edma3_edma4.rs
Kinds == {"EDma", "EDma3_EDma4"}

\* CHANNELS of Dma<CHANNELS>: the channels the model runs
Channels == 2

Chan == 0 .. (Channels - 1)

\* the bound of Channel::new
CHANNEL_COUNT == 32

\* tcd::CSR bit offsets
CSR_START == 0
CSR_INTMAJOR == 1
CSR_DREQ == 3
CSR_ACTIVE == 6
CSR_DONE == 7

\* tcd::edma34::CSR bit offsets
CH_CSR_ERQ == 0
CH_CSR_DONE == 30
CH_CSR_ACTIVE == 31

\* dmamux::RegisterBlock::ENBL, TRIG, A_ON
ENBL == 31
TRIG == 30
A_ON == 29

\* error status: VLD, the error channel field, source and destination bus error
ES_VLD == 31
ES_ERRCHN == 8
ES_NCE == 3
ES_SBE == 1
ES_DBE == 0

\* tcd::RegisterBlock after reset()
TcdZero ==
    [SADDR |-> U32(0, 0), SOFF |-> 0, DATTR |-> 0, SATTR |-> 0,
     NBYTES |-> U32(0, 0), SLAST |-> 0, DADDR |-> U32(0, 0), DOFF |-> 0,
     CITER |-> 0, DLAST_SGA |-> 0, CSR |-> {}, BITER |-> 0]

\* tcd::edma34::RegisterBlock without its TCD
ChanZero == [CSR |-> {}, ES |-> {}, INT |-> {}, MUX |-> 0]

\* the bits of a small natural number, shifted left by `offset`
RECURSIVE BitsOf(_, _)
BitsOf(n, offset) ==
    IF n = 0 THEN {}
    ELSE (IF n % 2 = 1 THEN {offset} ELSE {}) \cup BitsOf(n \div 2, offset + 1)

\* a write to a write-one-to-clear register
W1C(old, written) == old \ written

\* a write to CHn_CSR: ERQ is read-write, DONE is write-one-to-clear and
\* ACTIVE is owned by the engine
ChCsrWrite(old, written) ==
    (written \cap {CH_CSR_ERQ})
        \cup ((old \cap {CH_CSR_DONE}) \ written)
        \cup (old \cap {CH_CSR_ACTIVE})

\* modify_reg!: read, replace the named field bits, write back
ModifyBits(old, mask, value) == (old \ mask) \cup (value \cap mask)

-----------------------------------------------------------------------------
(* Channel methods.  Each is the relation between the registers before and  *)
(* after the call on the channel with index i.                              *)

\* faulty variant: the descriptor is zeroed except for its control and status word
reset_KeepsCSR(i) ==
    /\ tcd' = [tcd EXCEPT ![i] = [TcdZero EXCEPT !.CSR = tcd[i].CSR]]
    /\ UNCHANGED <<ERQ, ERR, INT, HRS, ES, chan, chcfg>>

\* faulty variant: the reset also clears the channel's enable request
reset_Disables(i) ==
    /\ tcd' = [tcd EXCEPT ![i] = TcdZero]
    /\ ERQ' = ERQ \ {i}
    /\ chan' = [chan EXCEPT ![i].CSR = @ \ {CH_CSR_ERQ}]
    /\ UNCHANGED <<ERR, INT, HRS, ES, chcfg>>

\* Channel::reset, tcd::RegisterBlock::reset
reset(i) ==
    /\ tcd' = [tcd EXCEPT ![i] = TcdZero]
    /\ UNCHANGED <<ERQ, ERR, INT, HRS, ES, chan, chcfg>>

\* faulty variant: the set-enable write is lost
enable_impl_Lost(i) == UNCHANGED <<tcd, ERQ, ERR, INT, HRS, ES, chan, chcfg>>

\* Channel::enable, enable_impl
enable_impl(i) ==
    /\ IF kind = "EDma"
       THEN ERQ' = ERQ \cup {i} /\ UNCHANGED chan
       ELSE /\ chan' = [chan EXCEPT ![i].CSR =
                          ChCsrWrite(@, ModifyBits(@, {CH_CSR_ERQ}, {CH_CSR_ERQ}))]
            /\ UNCHANGED ERQ
    /\ UNCHANGED <<tcd, ERR, INT, HRS, ES, chcfg>>

\* faulty variant: the clear-enable write is lost
disable_impl_Lost(i) == UNCHANGED <<tcd, ERQ, ERR, INT, HRS, ES, chan, chcfg>>

\* Channel::disable, disable_impl
disable_impl(i) ==
    /\ IF kind = "EDma"
       THEN ERQ' = ERQ \ {i} /\ UNCHANGED chan
       ELSE /\ chan' = [chan EXCEPT ![i].CSR =
                          ChCsrWrite(@, ModifyBits(@, {CH_CSR_ERQ}, {}))]
            /\ UNCHANGED ERQ
    /\ UNCHANGED <<tcd, ERR, INT, HRS, ES, chcfg>>

\* Channel::is_enabled, is_enabled_impl
is_enabled_impl(i) ==
    IF kind = "EDma" THEN i \in ERQ ELSE CH_CSR_ERQ \in chan[i].CSR

\* Channel::is_interrupt, is_interrupt_impl
is_interrupt_impl(i) ==
    IF kind = "EDma" THEN i \in INT ELSE chan[i].INT # {}

\* faulty variant: the interrupt flag is left set
clear_interrupt_impl_Lost(i) == UNCHANGED <<tcd, ERQ, ERR, INT, HRS, ES, chan, chcfg>>

\* Channel::clear_interrupt, clear_interrupt_impl
clear_interrupt_impl(i) ==
    /\ IF kind = "EDma"
       THEN INT' = INT \ {i} /\ UNCHANGED chan
       ELSE chan' = [chan EXCEPT ![i].INT = W1C(@, {0})] /\ UNCHANGED INT
    /\ UNCHANGED <<tcd, ERQ, ERR, HRS, ES, chcfg>>

\* faulty variant: the completion flag is read from the wrong bit
is_complete_impl_Start(i) ==
    IF kind = "EDma" THEN CSR_START \in tcd[i].CSR ELSE CH_CSR_ERQ \in chan[i].CSR

\* Channel::is_complete, is_complete_impl
is_complete_impl(i) ==
    IF kind = "EDma" THEN CSR_DONE \in tcd[i].CSR ELSE CH_CSR_DONE \in chan[i].CSR

\* faulty variant: on the eDMA3 / eDMA4 the DONE bit is written alone, not
\* merged into the value read from CHn_CSR
clear_complete_impl_Write(i) ==
    /\ IF kind = "EDma"
       THEN tcd' = [tcd EXCEPT ![i].CSR = @ \ {CSR_DONE}] /\ UNCHANGED chan
       ELSE /\ chan' = [chan EXCEPT ![i].CSR = ChCsrWrite(@, {CH_CSR_DONE})]
            /\ UNCHANGED tcd
    /\ UNCHANGED <<ERQ, ERR, INT, HRS, ES, chcfg>>

\* Channel::clear_complete, clear_complete_impl
clear_complete_impl(i) ==
    /\ IF kind = "EDma"
       THEN tcd' = [tcd EXCEPT ![i].CSR = @ \ {CSR_DONE}] /\ UNCHANGED chan
       ELSE /\ chan' = [chan EXCEPT ![i].CSR =
                          ChCsrWrite(@, ModifyBits(@, {CH_CSR_DONE}, {CH_CSR_DONE}))]
            /\ UNCHANGED tcd
    /\ UNCHANGED <<ERQ, ERR, INT, HRS, ES, chcfg>>

\* Channel::is_error, is_error_impl
is_error_impl(i) ==
    IF kind = "EDma" THEN i \in ERR ELSE chan[i].ES # {}

\* Channel::clear_error, clear_error_impl.  On the eDMA the controller drops
\* VLD of the error status once no channel's error flag is left.
clear_error_impl(i) ==
    /\ IF kind = "EDma"
       THEN /\ ERR' = ERR \ {i}
            /\ ES' = IF ERR \ {i} = {} THEN ES \ {ES_VLD} ELSE ES
            /\ UNCHANGED chan
       ELSE /\ chan' = [chan EXCEPT ![i].ES = W1C(@, {ES_VLD})]
            /\ UNCHANGED <<ERR, ES>>
    /\ UNCHANGED <<tcd, ERQ, INT, HRS, chcfg>>

\* Channel::is_active, is_active_impl
is_active_impl(i) ==
    IF kind = "EDma" THEN CSR_ACTIVE \in tcd[i].CSR
                     ELSE CH_CSR_ACTIVE \in chan[i].CSR

\* Channel::error_status, error_status_impl
error_status_impl(i) == IF kind = "EDma" THEN ES ELSE chan[i].ES

\* Channel::is_hardware_signaling, is_hardware_signaling_impl
is_hardware_signaling_impl(i) == i \in HRS

\* Channel::start: SSRT sets START of the channel's TCD
start(i) ==
    /\ tcd' = [tcd EXCEPT ![i].CSR = @ \cup {CSR_START}]
    /\ UNCHANGED <<ERQ, ERR, INT, HRS, ES, chan, chcfg>>

\* Channel::set_disable_on_completion
set_disable_on_completion(i, dreq) ==
    /\ tcd' = [tcd EXCEPT ![i].CSR =
                 ModifyBits(@, {CSR_DREQ}, IF dreq THEN {CSR_DREQ} ELSE {})]
    /\ UNCHANGED <<ERQ, ERR, INT, HRS, ES, chan, chcfg>>

\* Channel::set_interrupt_on_completion
set_interrupt_on_completion(i, intr) ==
    /\ tcd' = [tcd EXCEPT ![i].CSR =
                 ModifyBits(@, {CSR_INTMAJOR}, IF intr THEN {CSR_INTMAJOR} ELSE {})]
    /\ UNCHANGED <<ERQ, ERR, INT, HRS, ES, chan, chcfg>>

\* Element::DATA_TRANSFER_ID: the size code of an element type
DATA_TRANSFER_ID(esize) == CHOOSE j \in 0 .. 3 : 2^j = esize

\* the ATTR byte: SIZE in bits 0..2, MOD in bits 3..7
AttrOf(esize, modulo) == (DATA_TRANSFER_ID(esize) % 8) + 8 * (modulo % (MOD_mask + 1))

\* Channel::set_source_transfer
set_source_transfer(i, t, esize) ==
    /\ tcd' = [tcd EXCEPT ![i].SADDR = t.address,
                          ![i].SOFF = t.offset,
                          ![i].SATTR = AttrOf(esize, t.modulo),
                          ![i].SLAST = t.last_address_adjustment]
    /\ UNCHANGED <<ERQ, ERR, INT, HRS, ES, chan, chcfg>>

\* faulty variant: the attributes of both sides are written, the source's as zero
set_destination_transfer_BothAttributes(i, t, esize) ==
    /\ tcd' = [tcd EXCEPT ![i].DADDR = t.address,
                          ![i].DOFF = t.offset,
                          ![i].DATTR = AttrOf(esize, t.modulo),
                          ![i].SATTR = 0,
                          ![i].DLAST_SGA = t.last_address_adjustment]
    /\ UNCHANGED <<ERQ, ERR, INT, HRS, ES, chan, chcfg>>

\* Channel::set_destination_transfer
set_destination_transfer(i, t, esize) ==
    /\ tcd' = [tcd EXCEPT ![i].DADDR = t.address,
                          ![i].DOFF = t.offset,
                          ![i].DATTR = AttrOf(esize, t.modulo),
                          ![i].DLAST_SGA = t.last_address_adjustment]
    /\ UNCHANGED <<ERQ, ERR, INT, HRS, ES, chan, chcfg>>

\* faulty variant: the byte count is the element count
set_minor_loop_elements_Count(i, esize, len) ==
    /\ tcd' = [tcd EXCEPT ![i].NBYTES = UsizeOf(len)]
    /\ UNCHANGED <<ERQ, ERR, INT, HRS, ES, chan, chcfg>>

\* Channel::set_minor_loop_elements, set_minor_loop_bytes:
\* (mem::size_of::<E>() * len) as u32, for a len below 2^31
set_minor_loop_elements(i, esize, len) ==
    /\ tcd' = [tcd EXCEPT ![i].NBYTES = MulU32(UsizeOf(len), esize).val]
    /\ UNCHANGED <<ERQ, ERR, INT, HRS, ES, chan, chcfg>>

\* Channel::set_transfer_iterations: the u16 written to CITER and to BITER
set_transfer_iterations(i, iterations) ==
    /\ tcd' = [tcd EXCEPT ![i].CITER = iterations, ![i].BITER = iterations]
    /\ UNCHANGED <<ERQ, ERR, INT, HRS, ES, chan, chcfg>>

\* Channel::set_channel_configuration, set_channel_configuration_impl with
\* Configuration::Enable { source, periodic: false }
set_channel_configuration_enable(i, source) ==
    /\ IF kind = "EDma"
       THEN chcfg' = [chcfg EXCEPT ![i] = BitsOf(source, 0) \cup {ENBL}]
            /\ UNCHANGED chan
       ELSE chan' = [chan EXCEPT ![i].MUX = source] /\ UNCHANGED chcfg
    /\ UNCHANGED <<tcd, ERQ, ERR, INT, HRS, ES>>

\* the channels that support periodic triggering: the first four
PERIODIC_CHANNELS == 4

\* the DMAMUX sources a channel is configured with
Sources == {1, 2, 3, 127}

\* the values of Configuration: eDMA has Off, Enable { source, periodic }
\* and AlwaysOn; eDMA3 / eDMA4 have Off and Enable { source }
Configurations ==
    IF kind = "EDma"
    THEN {[tag |-> "Off"], [tag |-> "AlwaysOn"]}
           \cup [tag : {"Enable"}, source : Sources, periodic : BOOLEAN]
    ELSE {[tag |-> "Off"]} \cup [tag : {"Enable"}, source : Sources]

\* faulty variant: AlwaysOn is written without the enable bit
set_channel_configuration_impl_AlwaysOnOnly(index, configuration) ==
    CASE configuration.tag = "Off" -> [tag |-> "Written", value |-> {}]
      [] configuration.tag = "AlwaysOn" -> [tag |-> "Written", value |-> {A_ON}]
      [] OTHER ->
           IF ~configuration.periodic
           THEN [tag |-> "Written", value |-> BitsOf(configuration.source, 0) \cup {ENBL}]
           ELSE IF index < PERIODIC_CHANNELS
           THEN [tag |-> "Written",
                 value |-> BitsOf(configuration.source, 0) \cup {ENBL, TRIG}]
           ELSE [tag |-> "Panic"]

\* faulty variant: periodic triggering is accepted on channels 0 ..= 4
set_channel_configuration_impl_Inclusive(index, configuration) ==
    CASE configuration.tag = "Off" -> [tag |-> "Written", value |-> {}]
      [] configuration.tag = "AlwaysOn" -> [tag |-> "Written", value |-> {ENBL, A_ON}]
      [] OTHER ->
           IF ~configuration.periodic
           THEN [tag |-> "Written", value |-> BitsOf(configuration.source, 0) \cup {ENBL}]
           ELSE IF index <= PERIODIC_CHANNELS
           THEN [tag |-> "Written",
                 value |-> BitsOf(configuration.source, 0) \cup {ENBL, TRIG}]
           ELSE [tag |-> "Panic"]

\* Channel::set_channel_configuration, set_channel_configuration_impl on the
\* eDMA: the value written to chcfg[index], or the panic of the assertion
set_channel_configuration_impl(index, configuration) ==
    CASE configuration.tag = "Off" -> [tag |-> "Written", value |-> {}]
      [] configuration.tag = "AlwaysOn" -> [tag |-> "Written", value |-> {ENBL, A_ON}]
      [] OTHER ->
           IF ~configuration.periodic
           THEN [tag |-> "Written", value |-> BitsOf(configuration.source, 0) \cup {ENBL}]
           ELSE IF index < PERIODIC_CHANNELS
           THEN [tag |-> "Written",
                 value |-> BitsOf(configuration.source, 0) \cup {ENBL, TRIG}]
           ELSE [tag |-> "Panic"]

\* set_channel_configuration_impl on the eDMA3 / eDMA4: the source number
\* written to CHn_MUX, 0 for Off
chn_mux(index, configuration) ==
    [tag |-> "Written",
     value |-> IF configuration.tag = "Off" THEN 0 ELSE configuration.source]

\* Channel::set_trigger_from_hardware(Some(source))
set_trigger_from_hardware(i, source) == set_channel_configuration_enable(i, source)

-----------------------------------------------------------------------------
(* The DMA engine and the peripheral, which run beside the task *)

\* Longest buffer handed to a helper
MaxLen == 2

BufferAddress == U32(8192, 0)

PeripheralRegister == U32(16384, 64)

\* the channel's request multiplexer routes a peripheral request
MuxRouted(i) == IF kind = "EDma" THEN ENBL \in chcfg[i] ELSE chan[i].MUX # 0

\* the error channel field of the error status
ErrChnBits(i) == BitsOf(i, ES_ERRCHN)

\* the error the engine is followed through: a bus error on the source read
ErrorDetails == {ES_SBE}

SetActive(i, on) ==
    IF kind = "EDma"
    THEN /\ tcd' = [tcd EXCEPT ![i].CSR =
                      IF on THEN (@ \cup {CSR_ACTIVE}) \ {CSR_START}
                            ELSE @ \ {CSR_ACTIVE}]
         /\ UNCHANGED chan
    ELSE /\ chan' = [chan EXCEPT ![i].CSR =
                       IF on THEN @ \cup {CH_CSR_ACTIVE} ELSE @ \ {CH_CSR_ACTIVE}]
         /\ tcd' = [tcd EXCEPT ![i].CSR = IF on THEN @ \ {CSR_START} ELSE @]

\* the peripheral asserts its DMA request towards channel i
HwRequest(i) ==
    /\ periph /\ MuxRouted(i) /\ i \notin HRS
    /\ HRS' = HRS \cup {i}
    /\ UNCHANGED <<tcd, ERQ, ERR, INT, ES, chan, chcfg>>
    /\ last' = [op |-> "hw", ch |-> 0, by |-> "hw"]
    /\ UNCHANGED <<kind, taskVars, restOfMain>>

\* the engine starts a minor loop of channel i: on an enabled hardware
\* request, or on START
HwService(i) ==
    /\ ~is_active_impl(i)
    /\ (is_enabled_impl(i) /\ i \in HRS) \/ CSR_START \in tcd[i].CSR
    /\ SetActive(i, TRUE)
    /\ UNCHANGED <<ERQ, ERR, INT, HRS, ES, chcfg>>
    /\ last' = [op |-> "hw", ch |-> 0, by |-> "hw"]
    /\ UNCHANGED <<kind, taskVars, restOfMain>>

\* the minor loop of channel i ends in an error: the channel's error flag
\* is set and the error status records the channel and the cause
HwError(i, d) ==
    /\ is_active_impl(i)
    /\ IF kind = "EDma"
       THEN /\ ERR' = ERR \cup {i}
            /\ ES' = {ES_VLD, d} \cup ErrChnBits(i)
            /\ tcd' = [tcd EXCEPT ![i].CSR = @ \ {CSR_ACTIVE}]
            /\ UNCHANGED chan
       ELSE /\ chan' = [chan EXCEPT ![i].CSR = @ \ {CH_CSR_ACTIVE},
                                    ![i].ES = {ES_VLD}]
            /\ UNCHANGED <<ERR, ES, tcd>>
    /\ UNCHANGED <<ERQ, INT, HRS, chcfg>>
    /\ last' = [op |-> "hw", ch |-> 0, by |-> "hw"]
    /\ UNCHANGED <<kind, taskVars, restOfMain>>

\* the current major iteration count: the low 15 bits of CITER
CiterField(v) == v % 2^15

\* elements moved by one minor loop: NBYTES over the element size
MinorElements(t) == t.NBYTES[2] \div 2^(t.SATTR % 8)

\* the TCD after one minor loop that is not the last of the major loop
TcdAfterMinor(t) ==
    [t EXCEPT !.SADDR = AddressWalk(@, t.SOFF, MinorElements(t)),
              !.DADDR = AddressWalk(@, t.DOFF, MinorElements(t)),
              !.CITER = @ - 1]

\* the TCD after the last minor loop: end adjustments, CITER reloaded
TcdAfterMajor(t) ==
    [t EXCEPT !.SADDR = AddressAdjust(AddressWalk(@, t.SOFF, MinorElements(t)), t.SLAST),
              !.DADDR = AddressAdjust(AddressWalk(@, t.DOFF, MinorElements(t)), t.DLAST_SGA),
              !.CITER = t.BITER]

\* the addresses the model lets the engine reach: the peripheral register,
\* the reset value, and the buffer with the element after its end
InWindow(a) ==
    \/ a = U32(0, 0)
    \/ a = PeripheralRegister
    \/ a[1] = BufferAddress[1] /\ a[2] >= BufferAddress[2]
          /\ a[2] <= BufferAddress[2] + MaxLen * 8

\* the minor loop of channel i ends: the request is served; after the last
\* iteration the channel is done, interrupts if asked to, and is disabled
\* if DREQ is set
EngineMinorLoop(i) ==
    /\ is_active_impl(i)
    /\ CiterField(tcd[i].CITER) >= 1 /\ tcd[i].NBYTES[1] = 0 /\ tcd[i].NBYTES[2] >= 1
    /\ HRS' = HRS \ {i}
    /\ LET major == CiterField(tcd[i].CITER) = 1
           t == IF major THEN TcdAfterMajor(tcd[i]) ELSE TcdAfterMinor(tcd[i])
           dreq == major /\ CSR_DREQ \in tcd[i].CSR
           intr == major /\ CSR_INTMAJOR \in tcd[i].CSR
       IN  IF kind = "EDma"
           THEN /\ tcd' = [tcd EXCEPT ![i] =
                             [t EXCEPT !.CSR = (@ \ {CSR_ACTIVE})
                                          \cup (IF major THEN {CSR_DONE} ELSE {})]]
                /\ ERQ' = IF dreq THEN ERQ \ {i} ELSE ERQ
                /\ INT' = IF intr THEN INT \cup {i} ELSE INT
                /\ UNCHANGED chan
           ELSE /\ tcd' = [tcd EXCEPT ![i] = t]
                /\ chan' = [chan EXCEPT
                              ![i].CSR = ((@ \ {CH_CSR_ACTIVE})
                                             \cup (IF major THEN {CH_CSR_DONE} ELSE {}))
                                         \ (IF dreq THEN {CH_CSR_ERQ} ELSE {}),
                              ![i].INT = IF intr THEN {0} ELSE @]
                /\ UNCHANGED <<ERQ, INT>>
    /\ UNCHANGED <<ERR, ES, chcfg>>

\* the minor loop of channel i ends, followed over the addresses of InWindow
HwMinorLoop(i) ==
    /\ EngineMinorLoop(i)
    /\ InWindow(tcd'[i].SADDR) /\ InWindow(tcd'[i].DADDR)
    /\ last' = [op |-> "hw", ch |-> 0, by |-> "hw"]
    /\ UNCHANGED <<kind, taskVars, restOfMain>>

-----------------------------------------------------------------------------
(* The scheduling helpers peripheral_transfer and peripheral_receive, run   *)
(* one channel method at a time so that the engine can act in between       *)

HelperSizes == {4}

\* destination_signal() / source_signal() of the peripheral
SignalOf(dir) == IF dir = "peripheral_transfer" THEN 2 ELSE 3

\* faulty variant: the peripheral's DMA requests are enabled after the channel
HelperProgram_HookLate(dir) ==
    << "set_trigger_from_hardware",
       "set_source_transfer",
       "set_destination_transfer",
       "set_minor_loop_elements",
       "set_transfer_iterations",
       "compiler_fence",
       "enable",
       IF dir = "peripheral_transfer" THEN "enable_destination" ELSE "enable_source",
       "is_error" >>

\* faulty variant: the channel is enabled before the iteration counts are written
HelperProgram_EnableEarly(dir) ==
    << IF dir = "peripheral_transfer" THEN "enable_destination" ELSE "enable_source",
       "set_trigger_from_hardware",
       "set_source_transfer",
       "set_destination_transfer",
       "set_minor_loop_elements",
       "compiler_fence",
       "enable",
       "set_transfer_iterations",
       "is_error" >>

\* the statements of a helper up to the status read, in program order
HelperProgram(dir) ==
    << IF dir = "peripheral_transfer" THEN "enable_destination" ELSE "enable_source",
       "set_trigger_from_hardware",
       "set_source_transfer",
       "set_destination_transfer",
       "set_minor_loop_elements",
       "set_transfer_iterations",
       "compiler_fence",
       "enable",
       "is_error" >>

\* faulty variant: the error branch ends with the peripheral's disable hook
ErrorPath_Unhooks == << "disable", "error_status", "clear_error", "disable_source" >>

\* the statements of the error branch, in program order
ErrorPath == << "disable", "error_status", "clear_error" >>

\* faulty variant: the source descriptor is built from the wrong argument
HelperTx_Swapped(c) ==
    IF c.dir = "peripheral_transfer"
    THEN hardware(PeripheralRegister).transfer
    ELSE buffer_linear(BufferAddress, UsizeOf(c.len), c.esize, FALSE).transfer

\* the descriptors a helper builds: tx for the source, rx for the destination
HelperTx(c) ==
    IF c.dir = "peripheral_transfer"
    THEN buffer_linear(BufferAddress, UsizeOf(c.len), c.esize, FALSE).transfer
    ELSE hardware(PeripheralRegister).transfer

HelperRx(c) ==
    IF c.dir = "peripheral_transfer"
    THEN hardware(PeripheralRegister).transfer
    ELSE buffer_linear(BufferAddress, UsizeOf(c.len), c.esize, FALSE).transfer

\* what one statement does to the registers
HelperEffect(step, c) ==
    CASE step = "set_trigger_from_hardware" ->
            set_trigger_from_hardware(c.ch, SignalOf(c.dir))
      [] step = "set_source_transfer" ->
            set_source_transfer(c.ch, HelperTx(c), c.esize)
      [] step = "set_destination_transfer" ->
            set_destination_transfer(c.ch, HelperRx(c), c.esize)
      [] step = "set_minor_loop_elements" ->
            set_minor_loop_elements(c.ch, c.esize, 1)
      [] step = "set_transfer_iterations" ->
            set_transfer_iterations(c.ch, c.len % Limb)
      [] step = "enable" -> enable_impl(c.ch)
      [] step = "disable" -> disable_impl(c.ch)
      [] step = "clear_error" -> clear_error_impl(c.ch)
      [] OTHER -> UNCHANGED regVars

NoCall == [ch |-> 0, dir |-> "none", len |-> 0, esize |-> 1]

\* a helper is called on the channel with index i
HelperCall(i, dir, len, esize) ==
    /\ pc = << >>
    /\ pc' = HelperProgram(dir)
    /\ call' = [ch |-> i, dir |-> dir, len |-> len, esize |-> esize]
    /\ log' = << >>
    /\ es' = {}
    /\ ret' = [tag |-> "Running"]
    /\ last' = [op |-> dir, ch |-> i, by |-> "task"]
    /\ UNCHANGED <<periph, regVars, kind, restOfMain>>

\* the helper runs its next statement; it returns Ok from the status read,
\* or Err(es) at the end of the error branch
HelperStep ==
    /\ pc # << >>
    /\ LET step == Head(pc)
           failed == is_error_impl(call.ch)
           next == IF step = "is_error"
                   THEN (IF failed THEN ErrorPath ELSE << >>)
                   ELSE Tail(pc)
           es1 == IF step = "error_status" THEN error_status_impl(call.ch) ELSE es
       IN  /\ HelperEffect(step, call)
           /\ periph' = IF step \in {"enable_destination", "enable_source"}
                        THEN TRUE
                        ELSE IF step \in {"disable_destination", "disable_source"}
                        THEN FALSE ELSE periph
           /\ pc' = next
           /\ es' = es1
           /\ log' = Append(log, step)
           /\ ret' = IF next # << >> THEN ret
                     ELSE IF step = "is_error" THEN [tag |-> "Ok"]
                     ELSE [tag |-> "Err", es |-> es1]
           /\ last' = [op |-> step, ch |-> call.ch, by |-> "helper"]
    /\ UNCHANGED <<call, kind, restOfMain>>

\* a channel method called directly by the task, between helper calls
TaskOp(name, i, effect) ==
    /\ pc = << >>
    /\ effect
    /\ call' = NoCall /\ log' = << >> /\ es' = {} /\ ret' = [tag |-> "None"]
    /\ last' = [op |-> name, ch |-> i, by |-> "task"]
    /\ UNCHANGED <<periph, pc, kind, restOfMain>>

Reset(i) == TaskOp("reset", i, reset(i))

Start(i) == TaskOp("start", i, start(i))

ClearError(i) == TaskOp("clear_error", i, clear_error_impl(i))

\* the caller's own set-up, which the helpers leave to it
SetDisableOnCompletion(i) ==
    TaskOp("set_disable_on_completion", i, set_disable_on_completion(i, TRUE))

Disable(i) == TaskOp("disable", i, disable_impl(i))

-----------------------------------------------------------------------------
(* The channel machine *)

XferIdle ==
    /\ xin = [k |-> 0, d |-> 0, esize |-> 1, addr |-> U32(0, 0), checks |-> FALSE]
    /\ xout = [tag |-> "Idle"]

RegInit ==
    /\ tcd = [i \in Chan |-> TcdZero]
    /\ ERQ = {} /\ ERR = {} /\ INT = {} /\ HRS = {} /\ ES = {}
    /\ chan = [i \in Chan |-> ChanZero]
    /\ chcfg = [i \in Chan |-> {}]

TaskInit ==
    /\ periph = FALSE
    /\ pc = << >>
    /\ call = NoCall
    /\ log = << >>
    /\ es = {}
    /\ ret = [tag |-> "None"]
    /\ last = [op |-> "init", ch |-> 0, by |-> "task"]

AllocIdle == live = << >> /\ aliased = FALSE /\ halted = FALSE

\* a consumer that is not waiting
ConsumerIdle ==
    [st |-> "idle", woken |-> FALSE, wakes |-> 0, resumes |-> 0, by |-> {},
     hit |-> FALSE]

\* the cells are empty at driver construction
WakerIdle ==
    /\ cell = [j \in Chan |-> {}]
    /\ cons = [c \in Chan |-> ConsumerIdle]
    /\ isr = [j \in Chan |-> "idle"]
    /\ sig = [j \in Chan |-> 0]

\* no set_channel_configuration call is followed
MuxIdle == mux = [index |-> 0, tag |-> "Idle"]

\* the memory-copy example: `source: [u32; 32]` and `destination: [u32; 32]`
ExampleLen == 32

\* destination.as_ptr(); source.as_ptr() is BufferAddress
DestinationAddress == U32(BufferAddress[1], BufferAddress[2] + 1024)

\* the two buffers before the copy: the destination is zeroed, and the
\* source holds a different value in each element, so that a copy to the
\* wrong place shows
MemIdle ==
    mem = [a \in {BufferAddress[2] + 4 * k : k \in 0 .. (ExampleLen - 1)}
                   \cup {DestinationAddress[2] + 4 * k : k \in 0 .. (ExampleLen - 1)} |->
             IF a < DestinationAddress[2] THEN (a - BufferAddress[2]) \div 4 + 1 ELSE 0]

Init == kind \in Kinds /\ RegInit /\ TaskInit /\ XferIdle /\ AllocIdle /\ WakerIdle /\ MuxIdle /\ MemIdle

Hardware ==
    \E i \in Chan :
        \/ HwRequest(i)
        \/ HwService(i)
        \/ HwMinorLoop(i)
        \/ \E d \in ErrorDetails : HwError(i, d)

\* the task holds two channels: the last one serves the peripheral through
\* the helpers, the first one is started by software
HelperChannel == Channels - 1

SoftwareChannel == CHOOSE i \in Chan : \A j \in Chan : i <= j

Task ==
    \/ HelperStep
    \/ \E dir \in {"peripheral_transfer", "peripheral_receive"},
          len \in 1 .. MaxLen, esize \in HelperSizes :
            HelperCall(HelperChannel, dir, len, esize)
    \/ Reset(HelperChannel)
    \/ Start(SoftwareChannel)
    \/ ClearError(SoftwareChannel)

Next == Task \/ Hardware

Spec == Init /\ [][Next]_vars

-----------------------------------------------------------------------------
(* The scheduling helpers on a channel that the caller sets up to be        *)
(* disabled on completion, which the helpers leave to the caller            *)

ArmedNext ==
    \/ HelperStep
    \/ \E dir \in {"peripheral_transfer", "peripheral_receive"},
          len \in 1 .. MaxLen, esize \in HelperSizes :
            HelperCall(HelperChannel, dir, len, esize)
    \/ SetDisableOnCompletion(HelperChannel)
    \/ Disable(HelperChannel)
    \/ Hardware

SpecArmed == Init /\ [][ArmedNext]_vars

-----------------------------------------------------------------------------
(* The scheduling helpers on drawn buffers: every element type, and buffer  *)
(* lengths on both sides of the widths of the iteration count               *)

ScheduleLens == {1, 2, 32, 2^15 - 1, 2^15, 2^16 - 1, 2^16, 2^16 + 1}

ScheduleNext ==
    \/ HelperStep
    \/ \E dir \in {"peripheral_transfer", "peripheral_receive"},
          len \in ScheduleLens, esize \in ElementSizes :
            HelperCall(HelperChannel, dir, len, esize)

SpecSchedule == Init /\ [][ScheduleNext]_vars

-----------------------------------------------------------------------------
(* Channel configuration on drawn inputs: one call of                       *)
(* set_channel_configuration on the channel with a drawn index              *)

MuxInit ==
    /\ kind \in Kinds /\ RegInit /\ TaskInit /\ XferIdle /\ AllocIdle /\ WakerIdle
    /\ MemIdle
    /\ mux \in [index : 0 .. (CHANNEL_COUNT - 1), tag : {"Idle"}]

MuxConfigure(configuration) ==
    /\ mux.tag = "Idle"
    /\ mux' = [index |-> mux.index, configuration |-> configuration]
                 @@ (IF kind = "EDma" THEN set_channel_configuration_impl(mux.index, configuration)
                                      ELSE chn_mux(mux.index, configuration))
    /\ UNCHANGED <<kind, restOfMux>>

\* Channel::set_channel_configuration on channel i of the controller: the
\* value is written to the channel's multiplexer register, unless the call
\* panics
SetChannelConfiguration(i, configuration) ==
    TaskOp("set_channel_configuration", i,
           /\ IF kind = "EDma"
              THEN LET w == set_channel_configuration_impl(i, configuration)
                   IN  /\ chcfg' = IF w.tag = "Written"
                                    THEN [chcfg EXCEPT ![i] = w.value] ELSE chcfg
                       /\ UNCHANGED chan
              ELSE /\ chan' = [chan EXCEPT ![i].MUX = chn_mux(i, configuration).value]
                   /\ UNCHANGED chcfg
           /\ UNCHANGED <<tcd, ERQ, ERR, INT, HRS, ES>>)

MuxNext == \E configuration \in Configurations : MuxConfigure(configuration)

\* the task configures the two channels it holds, over and over
ConfigureNext ==
    \E i \in {SoftwareChannel, HelperChannel}, configuration \in Configurations :
        SetChannelConfiguration(i, configuration)

SpecConfigure == Init /\ [][ConfigureNext]_vars

SpecMux == MuxInit /\ [][MuxNext]_vars

\* the call was Enable with periodic triggering
PeriodicCall ==
    /\ mux.tag # "Idle" /\ mux.configuration.tag = "Enable"
    /\ "periodic" \in DOMAIN mux.configuration /\ mux.configuration.periodic

\* C12: Enable with periodic triggering panics on every channel index >= 4
\* and, on the indexes 0 .. 3, writes the source with ENBL and TRIG; the
\* eDMA3 / eDMA4 configuration has no periodic triggering.
C12_PeriodicLowFour ==
    /\ PeriodicCall =>
          /\ kind = "EDma"
          /\ mux.tag = "Panic" <=> mux.index >= 4
          /\ mux.index < 4 =>
                /\ mux.tag = "Written"
                /\ mux.value = BitsOf(mux.configuration.source, 0) \cup {ENBL, TRIG}
    /\ (mux.tag = "Panic") => PeriodicCall

\* the multiplexer register of a configuration, as the format of the
\* register gives it: bit 31 enables, bit 30 is the periodic trigger, bit 29
\* is always-on, and the low bits select the source
MuxRegisterOf(configuration) ==
    CASE configuration.tag = "Off" -> {}
      [] configuration.tag = "AlwaysOn" -> {31, 29}
      [] OTHER -> {31} \cup BitsOf(configuration.source, 0)
                       \cup (IF configuration.periodic THEN {30} ELSE {})

C12_Witness ==
    /\ PeriodicCall /\ mux.index = 3 /\ mux.tag = "Written" /\ TRIG \in mux.value

-----------------------------------------------------------------------------
(* Descriptor construction on drawn inputs *)

\* element counts: 0 (k = -1) and every power of two 2^k, plus a small offset d
CountOf(k, d) == AddSmallU32(IF k < 0 THEN U32(0, 0) ELSE Pow2U32(k), d)

AddressInputs == { U32(8192, 0), U32(Limb - 1, Limb - 16) }

XferInit ==
    /\ kind = "EDma" /\ RegInit /\ TaskInit /\ AllocIdle /\ WakerIdle /\ MuxIdle /\ MemIdle
    /\ xin \in [k : -1 .. (UsizeBits - 1), d : 0 .. MaxDelta,
                esize : ElementSizes, addr : AddressInputs, checks : BOOLEAN]
    /\ xout = [tag |-> "Idle"]

XferHardware ==
    /\ xout.tag = "Idle"
    /\ xout' = [op |-> "hardware"] @@ hardware(xin.addr)
    /\ UNCHANGED <<xin, restOfXfer>>

XferLinear ==
    /\ xout.tag = "Idle"
    /\ xout' = [op |-> "buffer_linear"]
               @@ buffer_linear(xin.addr, CountOf(xin.k, xin.d), xin.esize, xin.checks)
    /\ UNCHANGED <<xin, restOfXfer>>

XferCircular ==
    /\ xout.tag = "Idle"
    /\ xout' = [op |-> "buffer_circular"]
               @@ buffer_circular(xin.addr, CountOf(xin.k, xin.d), xin.esize, xin.checks)
    /\ UNCHANGED <<xin, restOfXfer>>

XferNext == XferHardware \/ XferLinear \/ XferCircular

SpecTransfer == XferInit /\ [][XferNext]_vars

-----------------------------------------------------------------------------
(* Reference arithmetic for the descriptor properties, on the exponents of  *)
(* the drawn inputs rather than on the limbs                                *)

\* log2 of an element size
SizeLog2(e) == CHOOSE j \in 0 .. 3 : 2^j = e

\* the drawn count is a power of two: 2^k, or 0 + 1, 0 + 2, 1 + 1, 2 + 2, ...
RefIsPow2(k, d) ==
    \/ k >= 0 /\ d = 0
    \/ k < 0 /\ d > 0 /\ \E m \in 0 .. d : 2^m = d
    \/ k >= 0 /\ k < 16 /\ d > 0 /\ \E m \in 0 .. 16 : 2^m = 2^k + d

\* log2 of a drawn count that is a power of two
RefLog2(k, d) ==
    IF k >= 0 /\ d = 0 THEN k
    ELSE CHOOSE m \in 0 .. 17 : 2^m = (IF k < 0 THEN 0 ELSE 2^k) + d

\* count * esize < 2^32, for any drawn count
RefFits(k, d, e) == k + SizeLog2(e) < UsizeBits

\* count * esize <= 2^31
RefFitsI32(k, d, e) ==
    \/ k + SizeLog2(e) < UsizeBits - 1
    \/ k + SizeLog2(e) = UsizeBits - 1 /\ d = 0

\* count * esize as a 32-bit word, when it fits
RefProduct(k, d, e) ==
    AddSmallU32(IF k < 0 THEN U32(0, 0) ELSE Pow2U32(k + SizeLog2(e)), d * e)

\* the magnitude of a non-positive i32, as a 32-bit word
Magnitude(v) ==
    IF v = 0 THEN U32(0, 0)
    ELSE LET m == -(v + 1) IN AddSmallU32(U32(m \div Limb, m % Limb), 1)

-----------------------------------------------------------------------------
(* Properties of descriptor construction (SpecTransfer) *)

CircularDone == "op" \in DOMAIN xout /\ xout.op = "buffer_circular"
LinearDone == "op" \in DOMAIN xout /\ xout.op = "buffer_linear"

\* C8 as stated: for every element size and every capacity, buffer_circular
\* returns a descriptor if and only if the capacity is a power of two.
C8_AsStated ==
    CircularDone => (xout.tag = "Some" <=> RefIsPow2(xin.k, xin.d))

\* C8 amended: buffer_circular returns no value exactly when the capacity is
\* not a power of two; for a power-of-two capacity it returns a descriptor,
\* except that a build with overflow checks panics when capacity * size
\* does not fit 32 bits.
C8_CircularIffPowerOfTwo ==
    CircularDone =>
        /\ xout.tag = "None" <=> ~RefIsPow2(xin.k, xin.d)
        /\ RefIsPow2(xin.k, xin.d) =>
             (xout.tag = "Some" <=>
                (RefFits(xin.k, xin.d, xin.esize) \/ ~xin.checks))

\* a power-of-two capacity yields a descriptor, in a build with overflow checks
C8_Witness ==
    /\ CircularDone /\ xout.tag = "Some" /\ xin.checks
    /\ xin.k = 10 /\ xin.d = 0 /\ xin.esize = 4

\* C9 as stated: for every element size in {1,2,4,8} and every power-of-two
\* capacity, the descriptor has modulo log2(capacity * size), stride = size,
\* end adjustment 0, and the modulo fits the 5-bit field.
C9_AsStated ==
    CircularDone /\ RefIsPow2(xin.k, xin.d) =>
        /\ xout.tag = "Some"
        /\ xout.transfer.modulo = RefLog2(xin.k, xin.d) + SizeLog2(xin.esize)
        /\ xout.transfer.offset = xin.esize
        /\ xout.transfer.last_address_adjustment = 0
        /\ xout.transfer.modulo % (MOD_mask + 1) = xout.transfer.modulo

\* C9 amended: the same, for the capacities whose byte size capacity * size
\* is below 2^32.
C9_CircularModulo ==
    CircularDone /\ RefIsPow2(xin.k, xin.d) /\ RefFits(xin.k, xin.d, xin.esize) =>
        /\ xout.tag = "Some"
        /\ xout.transfer.modulo = RefLog2(xin.k, xin.d) + SizeLog2(xin.esize)
        /\ xout.transfer.modulo =
             31 - leading_zeros(RefProduct(xin.k, xin.d, xin.esize))
        /\ xout.transfer.offset = xin.esize
        /\ xout.transfer.last_address_adjustment = 0
        /\ xout.transfer.modulo % (MOD_mask + 1) = xout.transfer.modulo

\* the largest circular buffer: 2^28 eight-byte elements, modulo 31
C9_Witness ==
    /\ CircularDone /\ xout.tag = "Some"
    /\ xin.k = 28 /\ xin.d = 0 /\ xin.esize = 8
    /\ xout.transfer.modulo = 31

\* C10 as stated: for every length L and element size E, buffer_linear yields
\* stride E, modulo 0 and an end adjustment exactly equal to -(L * E).
C10_AsStated ==
    LinearDone =>
        /\ xout.tag = "Some"
        /\ xout.transfer.offset = xin.esize
        /\ xout.transfer.modulo = 0
        /\ RefFits(xin.k, xin.d, xin.esize)
        /\ xout.transfer.last_address_adjustment <= 0
        /\ Magnitude(xout.transfer.last_address_adjustment)
             = RefProduct(xin.k, xin.d, xin.esize)

\* C10 amended: for L * E below 2^32 buffer_linear yields stride E, modulo 0
\* and an end adjustment congruent to -(L * E) modulo 2^32, exactly -(L * E)
\* when L * E <= 2^31; advancing the 32-bit working address L times by E and
\* applying the adjustment returns it to ptr.
C10_LinearAdjustment ==
    LinearDone /\ RefFits(xin.k, xin.d, xin.esize) =>
        LET t == xout.transfer
            n == CountOf(xin.k, xin.d)
        IN  /\ xout.tag = "Some"
            /\ t.offset = xin.esize
            /\ t.modulo = 0
            /\ AddU32(OfI32(t.last_address_adjustment),
                      RefProduct(xin.k, xin.d, xin.esize)) = U32(0, 0)
            /\ RefFitsI32(xin.k, xin.d, xin.esize) =>
                 /\ t.last_address_adjustment <= 0
                 /\ Magnitude(t.last_address_adjustment)
                      = RefProduct(xin.k, xin.d, xin.esize)
            /\ AddressAdjust(AddU32(t.address, RefProduct(xin.k, xin.d, xin.esize)),
                             t.last_address_adjustment) = xin.addr
            /\ (n[1] = 0 /\ n[2] <= MaxWalk) =>
                 AddressAdjust(AddressWalk(t.address, t.offset, n[2]),
                               t.last_address_adjustment) = xin.addr

\* 32 four-byte elements: the adjustment is -128
C10_Witness ==
    /\ LinearDone /\ xout.tag = "Some"
    /\ xin.k = 5 /\ xin.d = 0 /\ xin.esize = 4
    /\ xout.transfer.last_address_adjustment = 0 - 128

-----------------------------------------------------------------------------
(* Channel construction: Dma::channel and Channel::new hand out Channel     *)
(* values on request; a Channel that goes out of scope is gone              *)

\* Live Channel values at one time
MaxLive == 3

\* faulty variant: every Channel is built for index 0
Dma_channel_IndexZero(index) == [index |-> 0, waker |-> 0]

\* faulty variant: every Channel is bound to the first completion cell
Dma_channel_WakerZero(index) == [index |-> index, waker |-> 0]

\* the Channel value Dma::channel builds: the index, and the cell wakers[index]
Dma_channel(index) == [index |-> index, waker |-> index]

\* the Channel value Channel::new builds
Channel_new(index) == [index |-> index]

\* the indexes with a live Channel
LiveIndexes == {live[n].index : n \in DOMAIN live}

\* the sequence without its n-th element
RemoveAt(seq, n) == SubSeq(seq, 1, n - 1) \o SubSeq(seq, n + 1, Len(seq))

\* the constructors' arguments: both ends of each range and the first index
\* past each
AllocInputs == {0, Channels - 1, Channels, CHANNEL_COUNT - 1, CHANNEL_COUNT}

\* Dma::channel(index): panics unless index < CHANNELS
AllocDmaChannel(index) ==
    /\ ~halted /\ Len(live) < MaxLive
    /\ IF index < Channels
       THEN /\ live' = Append(live, Dma_channel(index))
            /\ aliased' = (aliased \/ index \in LiveIndexes)
            /\ UNCHANGED halted
       ELSE /\ halted' = TRUE
            /\ UNCHANGED <<live, aliased>>
    /\ last' = [op |-> "Dma_channel", ch |-> index, by |-> "task"]
    /\ UNCHANGED restOfAlloc

\* faulty variant: the bound as the doc comment words it, "greater than 32"
AllocChannelNew_Inclusive(index) ==
    /\ ~halted /\ Len(live) < MaxLive
    /\ IF index <= CHANNEL_COUNT
       THEN /\ live' = Append(live, Channel_new(index))
            /\ aliased' = (aliased \/ index \in LiveIndexes)
            /\ UNCHANGED halted
       ELSE /\ halted' = TRUE
            /\ UNCHANGED <<live, aliased>>
    /\ last' = [op |-> "Channel_new", ch |-> index, by |-> "task"]
    /\ UNCHANGED restOfAlloc

\* Channel::new(index): panics unless index < 32
AllocChannelNew(index) ==
    /\ ~halted /\ Len(live) < MaxLive
    /\ IF index < CHANNEL_COUNT
       THEN /\ live' = Append(live, Channel_new(index))
            /\ aliased' = (aliased \/ index \in LiveIndexes)
            /\ UNCHANGED halted
       ELSE /\ halted' = TRUE
            /\ UNCHANGED <<live, aliased>>
    /\ last' = [op |-> "Channel_new", ch |-> index, by |-> "task"]
    /\ UNCHANGED restOfAlloc

\* the n-th live Channel goes out of scope
DropChannel(n) ==
    /\ ~halted /\ n \in DOMAIN live
    /\ live' = RemoveAt(live, n)
    /\ last' = [op |-> "drop", ch |-> live[n].index, by |-> "task"]
    /\ UNCHANGED <<aliased, halted, restOfAlloc>>

AllocInit ==
    kind \in Kinds /\ RegInit /\ TaskInit /\ XferIdle /\ AllocIdle /\ WakerIdle /\ MuxIdle /\ MemIdle

AllocNext ==
    \/ \E index \in AllocInputs : AllocDmaChannel(index)
    \/ \E index \in AllocInputs : AllocChannelNew(index)
    \/ \E n \in 1 .. MaxLive : DropChannel(n)

SpecAlloc == AllocInit /\ [][AllocNext]_vars

\* the live Channel values with index i
LiveWith(i) == {n \in DOMAIN live : live[n].index = i}

\* C6 as stated: after any sequence of constructions, at most one live
\* Channel exists for each index.
C6_AsStated == \A i \in LiveIndexes : Cardinality(LiveWith(i)) <= 1

\* C6 amended: at most one live Channel exists for each index as long as no
\* Channel was constructed for an index that had a live Channel at that
\* moment; the constructors do not check it.
C6_UniqueUnlessAliased ==
    ~aliased => \A i \in LiveIndexes : Cardinality(LiveWith(i)) <= 1

\* three Channels for three indexes, by both constructors
C6_Witness ==
    /\ ~aliased /\ Len(live) = 3
    /\ LiveIndexes = {0, Channels - 1, CHANNEL_COUNT - 1}
    /\ \E n \in DOMAIN live : live[n] = Dma_channel(Channels - 1)

\* the bound each constructor checks its argument against
BoundOf(op) == IF op = "Dma_channel" THEN Channels ELSE CHANNEL_COUNT

-----------------------------------------------------------------------------
(* Completion synchronization: a consumer arms its channel, registers in    *)
(* the channel's cell and suspends; the interrupt path signals the cell     *)

\* Counted signals, wakes and resumptions saturate here
MaxCount == 2

Saturate(n) == IF n < MaxCount THEN n + 1 ELSE MaxCount

\* the consumers: one waits on the first channel, one on the last
Waiters == {0, Channels - 1}

\* the completion cell the Channel with index c is bound to
CellOf(c) == Dma_channel(c).waker

\* an interrupt request preempts the task: a consumer runs only while no
\* interrupt is requested and the interrupt path is not running
TaskRuns == \A j \in Chan : isr[j] = "idle" /\ ~is_interrupt_impl(j)

\* the consumer arms its channel, one channel method per step, and then
\* registers; a new wait starts the counts of the transfer afresh
ConsumerArm(c) ==
    /\ TaskRuns
    /\ cons[c].st \in {"idle", "ready", "set_interrupt_on_completion", "enable"}
    /\ IF cons[c].st \in {"idle", "ready"}
       THEN /\ set_disable_on_completion(c, TRUE)
            /\ cons' = [cons EXCEPT ![c] =
                  [ConsumerIdle EXCEPT !.st = "set_interrupt_on_completion",
                                       !.woken = cons[c].woken]]
            /\ sig' = [sig EXCEPT ![c] = 0]
       ELSE /\ IF cons[c].st = "set_interrupt_on_completion"
               THEN /\ set_interrupt_on_completion(c, TRUE)
                    /\ cons' = [cons EXCEPT ![c].st = "enable"]
               ELSE /\ enable_impl(c)
                    /\ cons' = [cons EXCEPT ![c].st = "register"]
            /\ UNCHANGED sig
    /\ UNCHANGED <<cell, isr, restOfWaker>>

\* the consumer is polled: it registers in its Channel's cell, replacing
\* what the cell held
ConsumerRegister(c) ==
    /\ TaskRuns
    /\ cons[c].st = "register"
    /\ cell' = [cell EXCEPT ![CellOf(c)] = {c}]
    /\ cons' = [cons EXCEPT ![c].st = "check", ![c].woken = FALSE]
    /\ UNCHANGED <<regVars, isr, sig, restOfWaker>>

\* the registered consumer reads the status: an error or a completion ends
\* the wait and is cleared; otherwise the consumer suspends
ConsumerCheck(c) ==
    /\ TaskRuns
    /\ cons[c].st = "check"
    /\ IF is_error_impl(c)
       THEN clear_error_impl(c) /\ cons' = [cons EXCEPT ![c].st = "ready"]
       ELSE IF is_complete_impl(c)
       THEN clear_complete_impl(c) /\ cons' = [cons EXCEPT ![c].st = "ready"]
       ELSE UNCHANGED regVars /\ cons' = [cons EXCEPT ![c].st = "suspended"]
    /\ UNCHANGED <<cell, isr, sig, restOfWaker>>

\* a signalled consumer is resumed: it is polled again
ConsumerResume(c) ==
    /\ TaskRuns
    /\ cons[c].st = "suspended" /\ cons[c].woken
    /\ cons' = [cons EXCEPT ![c].st = "register", ![c].woken = FALSE,
                            ![c].resumes = Saturate(@)]
    /\ UNCHANGED <<regVars, cell, isr, sig, restOfWaker>>

\* the transfer of an enabled channel j ends, in a completion or in an
\* error: the flag is set, the interrupt is requested if asked for, and the
\* request is disabled if asked for
HwFinish(j, err) ==
    /\ is_enabled_impl(j) /\ ~is_complete_impl(j) /\ ~is_error_impl(j)
    /\ LET dreq == CSR_DREQ \in tcd[j].CSR
           intr == CSR_INTMAJOR \in tcd[j].CSR
       IN  IF kind = "EDma"
           THEN /\ tcd' = [tcd EXCEPT ![j].CSR = IF err THEN @ ELSE @ \cup {CSR_DONE}]
                /\ ERR' = IF err THEN ERR \cup {j} ELSE ERR
                /\ ES' = IF err THEN {ES_VLD, ES_SBE} \cup ErrChnBits(j) ELSE ES
                /\ ERQ' = IF dreq THEN ERQ \ {j} ELSE ERQ
                /\ INT' = IF intr THEN INT \cup {j} ELSE INT
                /\ UNCHANGED chan
           ELSE /\ chan' = [chan EXCEPT
                              ![j].CSR = (@ \cup (IF err THEN {} ELSE {CH_CSR_DONE}))
                                           \ (IF dreq THEN {CH_CSR_ERQ} ELSE {}),
                              ![j].ES = IF err THEN {ES_VLD} ELSE @,
                              ![j].INT = IF intr THEN {0} ELSE @]
                /\ UNCHANGED <<tcd, ERR, ES, ERQ, INT>>
    /\ UNCHANGED <<HRS, chcfg, wakerVars, restOfWaker>>

\* the interrupt path of channel j starts: it clears the interrupt flag
IsrEnter(j) ==
    /\ isr[j] = "idle" /\ is_interrupt_impl(j)
    /\ clear_interrupt_impl(j)
    /\ isr' = [isr EXCEPT ![j] = "signal"]
    /\ UNCHANGED <<cell, cons, sig, restOfWaker>>

\* the interrupt path of channel j, on a completion or an error, takes the
\* content of cell j and signals it
IsrSignal(j) ==
    /\ isr[j] = "signal"
    /\ isr' = [isr EXCEPT ![j] = "idle"]
    /\ IF (is_complete_impl(j) \/ is_error_impl(j)) /\ cell[j] # {}
       THEN /\ cell' = [cell EXCEPT ![j] = {}]
            /\ sig' = [sig EXCEPT ![j] = Saturate(@)]
            /\ cons' = [c \in Chan |->
                  IF c \in cell[j]
                  THEN [cons[c] EXCEPT !.woken = TRUE, !.wakes = Saturate(@),
                                       !.by = @ \cup {j},
                                       !.hit = @ \/ cons[c].st = "suspended"]
                  ELSE cons[c]]
       ELSE UNCHANGED <<cell, sig, cons>>
    /\ UNCHANGED <<regVars, restOfWaker>>

WakerInit ==
    kind \in Kinds /\ RegInit /\ TaskInit /\ XferIdle /\ AllocIdle /\ WakerIdle /\ MuxIdle /\ MemIdle

WakerNext ==
    \/ \E c \in Waiters :
        \/ ConsumerArm(c)
        \/ ConsumerRegister(c)
        \/ ConsumerCheck(c)
        \/ ConsumerResume(c)
    \/ \E j \in Chan :
        \/ \E err \in BOOLEAN : HwFinish(j, err)
        \/ IsrEnter(j)
        \/ IsrSignal(j)

SpecWaker == WakerInit /\ [][WakerNext]_vars

\* an armed transfer ends, a requested interrupt is served, and a consumer
\* that can run is run
WakerFairness ==
    /\ \A j \in Chan :
        /\ WF_vars(\E err \in BOOLEAN : HwFinish(j, err))
        /\ WF_vars(IsrEnter(j))
        /\ WF_vars(IsrSignal(j))
    /\ \A c \in Waiters :
        /\ SF_vars(ConsumerRegister(c))
        /\ SF_vars(ConsumerCheck(c))
        /\ SF_vars(ConsumerResume(c))

SpecWakerFair == SpecWaker /\ WakerFairness

\* at most one signal reaches a consumer and at most one resumption follows,
\* for a transfer of its channel; a signal that reached a suspended consumer
\* is pending on the suspended consumer or has resumed it
AtMostOnce(c) ==
    /\ cons[c].wakes <= 1
    /\ cons[c].resumes <= 1
    /\ cons[c].hit =>
          \/ cons[c].st = "suspended" /\ cons[c].woken /\ cons[c].resumes = 0
          \/ cons[c].resumes = 1

\* C3: when a consumer has registered on channel N and suspended, and the
\* interrupt path then signals the completion of channel N, the consumer is
\* resumed exactly once for it: never more than once, and eventually once.
C3_ResumedExactlyOnce ==
    /\ [](\A c \in Waiters : AtMostOnce(c))
    /\ \A c \in Waiters : cons[c].hit ~> (cons[c].resumes = 1)

\* a consumer was suspended, was signalled once by its channel's completion,
\* was resumed once and has found the completion
C3_Witness ==
    \E c \in Waiters :
        /\ cons[c].hit /\ cons[c].resumes = 1 /\ cons[c].wakes = 1
        /\ cons[c].st = "ready" /\ sig[c] = 1 /\ cons[c].by = {c}

\* C4: under every interleaving of the interrupt path with the consumer, the
\* interrupt path signals at most once for a transfer, and a consumer that
\* has registered is eventually through its wait, also when the completion
\* came before or during the registration.
C4_SignalledOnceNeverLost ==
    /\ [](\A j \in Chan : sig[j] <= 1)
    /\ \A c \in Waiters : (cons[c].st = "check") ~> (cons[c].st = "ready")

\* the race: the transfer ended and the interrupt path ran before the
\* consumer registered, so the signal found the cell empty
C4_Witness ==
    \E c \in Waiters :
        /\ cons[c].st = "register" /\ cell[c] = {} /\ sig[c] = 0
        /\ is_complete_impl(c) /\ ~is_interrupt_impl(c) /\ isr[c] = "idle"

\* C5: a consumer that waits on the Channel with index i is signalled by the
\* interrupt path of channel i only: that Channel is bound to cell i, and
\* the consumer is found in no other cell.
C5_OwnChannelOnly ==
    \A c \in Waiters :
        /\ cons[c].by \subseteq {c}
        /\ CellOf(c) = c
        /\ \A j \in Chan : c \in cell[j] => j = c

\* both consumers are registered; the first channel's completion has
\* signalled the first consumer and left the other suspended
C5_Witness ==
    /\ Channels > 1
    /\ cons[0].by = {0} /\ cons[0].woken
    /\ cons[Channels - 1].st = "suspended" /\ cons[Channels - 1].by = {}
    /\ cell[Channels - 1] = {Channels - 1}

-----------------------------------------------------------------------------
(* The status flags: the task enables, starts and clears the flags of two   *)
(* channels by hand while the engine completes and fails their transfers    *)

FlagChannels == {SoftwareChannel, HelperChannel}

Enable(i) == TaskOp("enable", i, enable_impl(i))

SetInterruptOnCompletion(i) ==
    TaskOp("set_interrupt_on_completion", i, set_interrupt_on_completion(i, TRUE))

ClearComplete(i) == TaskOp("clear_complete", i, clear_complete_impl(i))

ClearInterrupt(i) == TaskOp("clear_interrupt", i, clear_interrupt_impl(i))

FlagsTask ==
    \E i \in FlagChannels :
        \/ Enable(i)
        \/ Disable(i)
        \/ SetInterruptOnCompletion(i)
        \/ Start(i)
        \/ ClearComplete(i)
        \/ ClearError(i)
        \/ ClearInterrupt(i)

FlagsHardware ==
    \E j \in FlagChannels :
        \/ HwService(j)
        \/ \E d \in ErrorDetails : HwError(j, d)
        \/ HwFinish(j, FALSE)

FlagsNext == FlagsTask \/ FlagsHardware

SpecFlags == Init /\ [][FlagsNext]_vars

\* the complete, error and interrupt flags and the enable-request bit of
\* channel j, as the channel's methods read them
FlagsOf(j) ==
    [complete |-> is_complete_impl(j), error |-> is_error_impl(j),
     interrupt |-> is_interrupt_impl(j), enabled |-> is_enabled_impl(j)]

\* the same four in the next state
FlagsOfNext(j) ==
    [complete |-> is_complete_impl(j)', error |-> is_error_impl(j)',
     interrupt |-> is_interrupt_impl(j)', enabled |-> is_enabled_impl(j)']

AllSet == [complete |-> TRUE, error |-> TRUE, interrupt |-> TRUE, enabled |-> TRUE]

ObservedOf(j) ==
    [is_active |-> is_active_impl(j), is_complete |-> is_complete_impl(j),
     is_error |-> is_error_impl(j), is_enabled |-> is_enabled_impl(j),
     is_interrupt |-> is_interrupt_impl(j),
     is_hardware_signaling |-> is_hardware_signaling_impl(j)]

\* the same six in the next state
ObservedOfNext(j) ==
    [is_active |-> is_active_impl(j)', is_complete |-> is_complete_impl(j)',
     is_error |-> is_error_impl(j)', is_enabled |-> is_enabled_impl(j)',
     is_interrupt |-> is_interrupt_impl(j)',
     is_hardware_signaling |-> is_hardware_signaling_impl(j)']

\* C23: the register layouts cannot be told apart through the six status
\* predicates.  After every channel operation and every engine event the
\* predicates of the channel are the same function of the predicates and of
\* the descriptor before the step, whatever the layout: the operation's own
\* flag changes as the operation says and the other predicates stay.
C23_AsStated ==
    [][\A i \in FlagChannels :
         /\ Enable(i) =>
              ObservedOfNext(i) = [ObservedOf(i) EXCEPT !.is_enabled = TRUE]
         /\ Disable(i) =>
              ObservedOfNext(i) = [ObservedOf(i) EXCEPT !.is_enabled = FALSE]
         /\ Start(i) => ObservedOfNext(i) = ObservedOf(i)
         /\ ClearComplete(i) =>
              ObservedOfNext(i) = [ObservedOf(i) EXCEPT !.is_complete = FALSE]
         /\ ClearError(i) =>
              ObservedOfNext(i) = [ObservedOf(i) EXCEPT !.is_error = FALSE]
         /\ ClearInterrupt(i) =>
              ObservedOfNext(i) = [ObservedOf(i) EXCEPT !.is_interrupt = FALSE]
         /\ HwService(i) =>
              ObservedOfNext(i) = [ObservedOf(i) EXCEPT !.is_active = TRUE]
         /\ (\E d \in ErrorDetails : HwError(i, d)) =>
              ObservedOfNext(i) = [ObservedOf(i) EXCEPT !.is_active = FALSE,
                                                       !.is_error = TRUE]
         /\ HwFinish(i, FALSE) =>
              ObservedOfNext(i) =
                [ObservedOf(i) EXCEPT
                   !.is_complete = TRUE,
                   !.is_interrupt = @ \/ CSR_INTMAJOR \in tcd[i].CSR,
                   !.is_enabled = @ /\ CSR_DREQ \notin tcd[i].CSR]]_vars

\* C21: on every register layout, error_status() reads the one error status
\* register of the controller, so that the handles of two channels read the
\* same value in the same state
C21_AsStated ==
    \A i, j \in Chan : error_status_impl(i) = error_status_impl(j)

-----------------------------------------------------------------------------
(* The iteration counts: the task programs the counts of one channel and    *)
(* starts its minor loops by software, one start per minor loop             *)

\* the iteration counts the task passes: short ones, and the first ones
\* past the 15 bits of the count field
IterationCounts == {0, 1, 2, 32, 2^15, 2^15 + 1, 2^15 + 32}

\* the element counts the minor loop is set to: small ones, and the ones
\* around the products of 2^16 and of 2^32 bytes
ElementCounts ==
    {0, 1, 2, 2^16 - 1, 2^16, 2^29 - 1, 2^29, 2^30 - 1, 2^30, 2^30 + (2^30 - 1)}

\* set_minor_loop_elements::<E>(len) with size_of::<E>() = esize. checks:
\* the build has overflow checks on, so an overflowing usize multiplication
\* panics before anything is written
SetMinorLoopElements(i, esize, len, checks) ==
    IF checks /\ MulU32(UsizeOf(len), esize).carry # 0
    THEN TaskOp("panic", i, UNCHANGED regVars)
    ELSE TaskOp("set_minor_loop_elements", i, set_minor_loop_elements(i, esize, len))

SetTransferIterations(i, n) ==
    TaskOp("set_transfer_iterations", i, set_transfer_iterations(i, n))

IterationsNext ==
    \/ SetMinorLoopElements(HelperChannel, 4, 1, FALSE)
    \/ \E n \in IterationCounts : SetTransferIterations(HelperChannel, n)
    \/ Start(HelperChannel)
    \/ ClearComplete(HelperChannel)
    \/ HwService(HelperChannel)
    \/ HwMinorLoop(HelperChannel)

SpecIterations == Init /\ [][IterationsNext]_vars

\* the engine ends the major loop of channel i in this step
MajorLoopEnds(i) == HwMinorLoop(i) /\ CiterField(tcd[i].CITER) = 1

\* C11: for every n, set_transfer_iterations(n) leaves the current and the
\* starting major-loop count both equal to n, and when the major loop has
\* ended the current count reads as the starting count again
C11_AsStated ==
    [][/\ \A n \in IterationCounts :
            SetTransferIterations(HelperChannel, n) =>
                /\ CiterField(tcd'[HelperChannel].CITER) = n
                /\ CiterField(tcd'[HelperChannel].BITER) = n
       /\ MajorLoopEnds(HelperChannel) =>
            CiterField(tcd'[HelperChannel].CITER) = CiterField(tcd[HelperChannel].BITER)]_vars

-----------------------------------------------------------------------------
(* The memory-copy example of the crate documentation: one channel, always  *)
(* requested, copies a buffer of 32 words into another and is polled        *)

\* Channel::set_always_on: the channel is configured with AlwaysOn
set_always_on(i) ==
    /\ chcfg' = [chcfg EXCEPT
                   ![i] = set_channel_configuration_impl(i, [tag |-> "AlwaysOn"]).value]
    /\ UNCHANGED <<tcd, ERQ, ERR, INT, HRS, ES, chan>>

\* the statements of the example, in program order
ExampleProgram ==
    << "reset",
       "set_always_on",
       "set_disable_on_completion",
       "set_source_transfer",
       "set_destination_transfer",
       "set_minor_loop_elements",
       "set_transfer_iterations",
       "enable",
       "start",
       "is_error",
       "is_complete",
       "assert_eq" >>

\* faulty variant: the destination is described as a hardware register
ExampleRx_Hardware == hardware(DestinationAddress).transfer

\* `rx`: the destination buffer
ExampleRx == buffer_linear(DestinationAddress, UsizeOf(ExampleLen), 4, FALSE).transfer

\* what one statement of the example does to the registers
ExampleEffect(step, i) ==
    CASE step = "reset" -> reset(i)
      [] step = "set_always_on" -> set_always_on(i)
      [] step = "set_disable_on_completion" -> set_disable_on_completion(i, TRUE)
      [] step = "set_source_transfer" ->
            set_source_transfer(
                i, buffer_linear(BufferAddress, UsizeOf(ExampleLen), 4, FALSE).transfer, 4)
      [] step = "set_destination_transfer" -> set_destination_transfer(i, ExampleRx, 4)
      [] step = "set_minor_loop_elements" -> set_minor_loop_elements(i, 4, 1)
      [] step = "set_transfer_iterations" -> set_transfer_iterations(i, ExampleLen % Limb)
      [] step = "enable" -> enable_impl(i)
      [] step = "start" -> start(i)
      [] OTHER -> UNCHANGED regVars

\* assert_eq!(destination, ..): every word of the destination is the word
\* of the source at the same place
DestinationHoldsSource ==
    \A k \in 0 .. (ExampleLen - 1) :
        mem[DestinationAddress[2] + 4 * k] = mem[BufferAddress[2] + 4 * k]

\* the example starts; it runs once
ExampleCall ==
    /\ pc = << >> /\ ret.tag = "None"
    /\ pc' = ExampleProgram
    /\ call' = [ch |-> HelperChannel, dir |-> "example", len |-> ExampleLen, esize |-> 4]
    /\ log' = << >>
    /\ es' = {}
    /\ ret' = [tag |-> "Running"]
    /\ last' = [op |-> "example", ch |-> HelperChannel, by |-> "task"]
    /\ UNCHANGED <<periph, regVars, kind, restOfMain>>

\* the example runs its next statement.  It panics from the status read if
\* the error flag is set, and from the assertion if the buffers differ; the
\* polling loop goes on when the complete flag is set.
ExampleStep ==
    /\ pc # << >> /\ call.dir = "example"
    /\ LET step == Head(pc)
           panics == \/ step = "is_error" /\ is_error_impl(call.ch)
                     \/ step = "assert_eq" /\ ~DestinationHoldsSource
       IN  /\ step = "is_complete" => is_complete_impl(call.ch)
           /\ ExampleEffect(step, call.ch)
           /\ pc' = IF panics THEN << >> ELSE Tail(pc)
           /\ log' = Append(log, step)
           /\ ret' = IF panics THEN [tag |-> "Panic"]
                     ELSE IF Tail(pc) = << >> THEN [tag |-> "Ok"]
                     ELSE ret
           /\ last' = [op |-> step, ch |-> call.ch, by |-> "task"]
    /\ UNCHANGED <<periph, call, es, kind, restOfMain>>

\* an always-on channel is requested all the time
ExampleRequest(i) ==
    /\ {ENBL, A_ON} \subseteq chcfg[i] /\ i \notin HRS
    /\ HRS' = HRS \cup {i}
    /\ UNCHANGED <<tcd, ERQ, ERR, INT, ES, chan, chcfg>>
    /\ last' = [op |-> "hw", ch |-> 0, by |-> "hw"]
    /\ UNCHANGED <<kind, taskVars, restOfMain>>

\* the minor loop of channel i ends, having moved its elements between the
\* two buffers: element k is read at SADDR + k * SOFF and written at
\* DADDR + k * DOFF
ExampleMinorLoop(i) ==
    /\ EngineMinorLoop(i)
    /\ LET t == tcd[i]
           n == MinorElements(t)
           src(k) == t.SADDR[2] + k * t.SOFF
           dst(k) == t.DADDR[2] + k * t.DOFF
           hits(a) == {k \in 0 .. (n - 1) : dst(k) = a}
       IN  /\ t.SATTR % 8 = 2 /\ t.DATTR % 8 = 2
           /\ t.SADDR[1] = BufferAddress[1] /\ t.DADDR[1] = BufferAddress[1]
           /\ \A k \in 0 .. (n - 1) : src(k) \in DOMAIN mem /\ dst(k) \in DOMAIN mem
           /\ mem' = [a \in DOMAIN mem |->
                        IF hits(a) = {} THEN mem[a]
                        ELSE mem[src(CHOOSE k \in hits(a) : \A j \in hits(a) : j <= k)]]
    /\ last' = [op |-> "hw", ch |-> 0, by |-> "hw"]
    /\ UNCHANGED <<kind, taskVars, xferVars, allocVars, wakerVars, muxVars>>

\* set_always_on is a method of the eDMA
ExampleInit == Init /\ kind = "EDma"

ExampleNext ==
    \/ ExampleCall
    \/ ExampleStep
    \/ ExampleRequest(HelperChannel)
    \/ HwService(HelperChannel)
    \/ ExampleMinorLoop(HelperChannel)

SpecExample == ExampleInit /\ [][ExampleNext]_vars

\* C18: when the engine ends the major loop of the example's channel, the
\* channel is complete and free of error and the destination holds the
\* content of the source; the example's status read and its assertion pass
C18_EndToEnd ==
    [][/\ ExampleMinorLoop(HelperChannel) /\ CiterField(tcd[HelperChannel].CITER) = 1 =>
            /\ is_complete_impl(HelperChannel)'
            /\ ~is_error_impl(HelperChannel)'
            /\ DestinationHoldsSource'
       /\ ExampleStep => ret'.tag # "Panic"]_vars

\* the example has run to its end: its channel is complete and free of
\* error, and the last word of the destination is the last word of the source
C18_Witness ==
    /\ call.dir = "example" /\ ret.tag = "Ok"
    /\ is_complete_impl(HelperChannel) /\ ~is_error_impl(HelperChannel)
    /\ DestinationHoldsSource
    /\ mem[DestinationAddress[2] + 4 * (ExampleLen - 1)] = ExampleLen

-----------------------------------------------------------------------------
(* Properties of the scheduling helpers, over Spec *)

\* the positions of a statement in the log of the current call
PositionsOf(step) == {n \in DOMAIN log : log[n] = step}

\* the statements that write the channel's multiplexer or descriptor
DescriptorWrites ==
    {"set_trigger_from_hardware", "set_source_transfer", "set_destination_transfer",
     "set_minor_loop_elements", "set_transfer_iterations"}

\* a helper has just returned
HelperReturned == last.by = "helper" /\ pc = << >>

HelperFailed == HelperReturned /\ ret.tag = "Err"

C2_DescriptorBeforeEnable ==
    \A n \in PositionsOf("enable") :
        /\ \A w \in DescriptorWrites :
              /\ Cardinality(PositionsOf(w)) = 1
              /\ \A m \in PositionsOf(w) : m < n
        /\ \A m \in DOMAIN log : m > n => log[m] \notin DescriptorWrites

\* a receive has enabled its channel and is about to read the status, with
\* the descriptor of the call installed
C2_Witness ==
    /\ last.by = "helper" /\ last.op = "enable" /\ call.dir = "peripheral_receive"
    /\ is_enabled_impl(call.ch)
    /\ tcd[call.ch].BITER = call.len
    /\ tcd[call.ch].DADDR = BufferAddress

\* the helper has just run the statement `step`
JustRan(step) == last.by = "helper" /\ last.op = step

\* the descriptor side of a buffer of call.len elements at BufferAddress
BufferSide(addr, off, attr, adj) ==
    /\ addr = BufferAddress
    /\ off = call.esize
    /\ attr = SizeLog2(call.esize)
    /\ adj = 0 - (call.len * call.esize)

\* the descriptor side of the peripheral's data register
RegisterSide(addr, off, attr, adj) ==
    /\ addr = PeripheralRegister
    /\ off = 0
    /\ attr = SizeLog2(call.esize)
    /\ adj = 0

\* C14: peripheral_transfer installs the buffer on the source side (stride
\* the element size, end adjustment -(len * size), no modulo) and the
\* peripheral register on the destination side (stride 0, end adjustment 0,
\* no modulo); peripheral_receive installs them the other way round; both
\* route the peripheral's request signal to the channel and set the minor
\* loop to one element.
C14_DescriptorSides ==
    LET t == tcd[call.ch]
        tx == call.dir = "peripheral_transfer"
    IN  /\ JustRan("set_source_transfer") =>
              IF tx THEN BufferSide(t.SADDR, t.SOFF, t.SATTR, t.SLAST)
                    ELSE RegisterSide(t.SADDR, t.SOFF, t.SATTR, t.SLAST)
        /\ JustRan("set_destination_transfer") =>
              IF tx THEN RegisterSide(t.DADDR, t.DOFF, t.DATTR, t.DLAST_SGA)
                    ELSE BufferSide(t.DADDR, t.DOFF, t.DATTR, t.DLAST_SGA)
        /\ JustRan("set_trigger_from_hardware") =>
              IF kind = "EDma"
              THEN chcfg[call.ch] = BitsOf(SignalOf(call.dir), 0) \cup {ENBL}
              ELSE chan[call.ch].MUX = SignalOf(call.dir)
        /\ JustRan("set_minor_loop_elements") => t.NBYTES = U32(0, call.esize)
        /\ JustRan("enable") =>
              /\ IF tx THEN /\ BufferSide(t.SADDR, t.SOFF, t.SATTR, t.SLAST)
                            /\ RegisterSide(t.DADDR, t.DOFF, t.DATTR, t.DLAST_SGA)
                       ELSE /\ RegisterSide(t.SADDR, t.SOFF, t.SATTR, t.SLAST)
                            /\ BufferSide(t.DADDR, t.DOFF, t.DATTR, t.DLAST_SGA)
              /\ t.NBYTES = U32(0, call.esize)

\* a receive of 32 two-byte elements has enabled its channel: the buffer is
\* the destination, with end adjustment -64
C14_Witness ==
    /\ JustRan("enable") /\ call.dir = "peripheral_receive"
    /\ call.len = 32 /\ call.esize = 2
    /\ tcd[call.ch].DLAST_SGA = 0 - 64 /\ tcd[call.ch].DOFF = 2
    /\ tcd[call.ch].SADDR = PeripheralRegister /\ tcd[call.ch].SOFF = 0

\* C15: for every buffer length L handed to a helper, the current and the
\* starting major-loop iteration count programmed into the channel equal L.
C15_IterationsAreLength ==
    JustRan("set_transfer_iterations") =>
        /\ tcd[call.ch].CITER = call.len
        /\ tcd[call.ch].BITER = call.len

\* the positions of the peripheral's DMA-request hook in the call's log
HookPositions == PositionsOf("enable_destination") \cup PositionsOf("enable_source")

\* C17: in every call of a helper the peripheral's DMA-request hook
\* (enable_destination for a transfer, enable_source for a receive) runs
\* exactly once, and it runs before the write that enables the channel.
C17_HookOnceBeforeEnable ==
    /\ Cardinality(HookPositions) <= 1
    /\ \A n \in PositionsOf("enable") :
          /\ Cardinality(HookPositions) = 1
          /\ \A m \in HookPositions : m < n
    /\ HelperReturned =>
          /\ Cardinality(HookPositions) = 1
          /\ \A m \in HookPositions :
                log[m] = (IF call.dir = "peripheral_transfer"
                          THEN "enable_destination" ELSE "enable_source")

\* a receive returned Ok: enable_source ran first, enable ran later
C17_Witness ==
    /\ HelperReturned /\ ret.tag = "Ok" /\ call.dir = "peripheral_receive"
    /\ log[1] = "enable_source" /\ periph
    /\ PositionsOf("enable") # {}

\* C16 as stated: when the status read finds no error the helper returns
\* Ok with the channel enabled, after its nine statements and without
\* reading the completion flag.
C16_AsStated ==
    (HelperReturned /\ ret.tag = "Ok") =>
        /\ is_enabled_impl(call.ch)
        /\ log = HelperProgram(call.dir)
        /\ "is_complete" \notin {log[n] : n \in DOMAIN log}

\* C16 amended: when the status read finds no error the helper returns Ok
\* after its nine statements, having enabled the channel once and never
\* disabled it, and without reading the completion flag; the channel is
\* enabled on return unless the engine has already finished the major loop
\* of a channel set up to be disabled on completion.
C16_ScheduledNotAwaited ==
    (HelperReturned /\ ret.tag = "Ok") =>
        /\ Len(log) = 9
        /\ log[Len(log) - 1] = "enable" /\ log[Len(log)] = "is_error"
        /\ Cardinality(PositionsOf("enable")) = 1
        /\ {"disable", "is_complete"} \cap {log[n] : n \in DOMAIN log} = {}
        /\ \/ is_enabled_impl(call.ch)
           \/ is_complete_impl(call.ch) /\ CSR_DREQ \in tcd[call.ch].CSR

\* a transfer of two elements returned Ok: the channel is enabled, the
\* request is pending and nothing has been moved yet
C16_Witness ==
    /\ HelperReturned /\ ret.tag = "Ok" /\ call.len = 2
    /\ is_enabled_impl(call.ch) /\ ~is_complete_impl(call.ch)
    /\ call.ch \in HRS /\ tcd[call.ch].CITER = 2

\* the helper returned an error and the caller has not touched the channel since
AfterError == ret.tag = "Err" /\ pc = << >>

\* C19 as stated: after a helper returned an error the engine makes no
\* further access through that channel: the channel is idle and disabled,
\* and no step moves its descriptor.
C19_AsStated ==
    [][AfterError =>
          /\ ~is_active_impl(call.ch)
          /\ ~is_enabled_impl(call.ch)
          /\ AfterError' => tcd'[call.ch] = tcd[call.ch]]_vars

\* the error channel field of a status value: bits 8 .. 12
ErrChnField(status) == status \cap (ES_ERRCHN .. (ES_ERRCHN + 4))

\* C22: the status that a failing helper returns names the helper's channel
\* in its error channel field.  Over SpecArmed no channel but the helper's
\* runs, so that no other channel fails between the helper's read of the
\* error flag and its read of the status.
C22_AsStated ==
    AfterError => ErrChnField(ret.es) = ErrChnBits(call.ch)

\* the status predicates of channel i
StatusOf(i) ==
    [is_active |-> is_active_impl(i), is_complete |-> is_complete_impl(i),
     is_error |-> is_error_impl(i), is_enabled |-> is_enabled_impl(i)]

AllFalse == [is_active |-> FALSE, is_complete |-> FALSE,
             is_error |-> FALSE, is_enabled |-> FALSE]

\* C7 as stated: right after reset(), is_active, is_complete, is_error and
\* is_enabled all return false, whatever the channel's state was.
C7_AsStated == last.op = "reset" => StatusOf(last.ch) = AllFalse

\* C7 amended: reset() writes the transfer descriptor only. Right after it,
\* is_error and is_enabled return what they returned before; is_active and
\* is_complete return false on the eDMA layout, where both flags live in the
\* descriptor, and what they returned before on the eDMA3/eDMA4 layout.
C7_ResetStatus ==
    [][\A i \in Chan : (last'.op = "reset" /\ last'.ch = i) =>
             /\ StatusOf(i)'.is_error = StatusOf(i).is_error
             /\ StatusOf(i)'.is_enabled = StatusOf(i).is_enabled
             /\ kind = "EDma" =>
                   ~StatusOf(i)'.is_active /\ ~StatusOf(i)'.is_complete
             /\ kind # "EDma" =>
                   /\ StatusOf(i)'.is_active = StatusOf(i).is_active
                   /\ StatusOf(i)'.is_complete = StatusOf(i).is_complete]_vars

\* reset() on a channel that is enabled with a request pending, on the eDMA
\* layout: the descriptor is zero, the channel is still enabled
C7_Witness ==
    /\ last.op = "reset" /\ kind = "EDma"
    /\ is_enabled_impl(last.ch) /\ ~is_complete_impl(last.ch)
    /\ tcd[last.ch] = TcdZero /\ last.ch \in HRS

-----------------------------------------------------------------------------
(* Cancellation and replacement in the completion cell: two waiting         *)
(* contexts use the cell of one channel, one after the other                *)

\* the channel whose cell the waiting contexts register in
CellChannel == SoftwareChannel

\* the cell forgets nothing: a registration adds to what the cell holds
CellRegister_Adds(w) ==
    /\ TaskRuns
    /\ cons[w].st \in {"idle", "register"}
    /\ cell' = [cell EXCEPT ![CellOf(CellChannel)] = @ \cup {w}]
    /\ cons' = [cons EXCEPT ![w].st = "suspended", ![w].woken = FALSE]
    /\ UNCHANGED <<regVars, isr, sig, restOfWaker>>

\* the context w registers in the cell and suspends: what the cell held
\* is replaced (last write wins)
CellRegister(w) ==
    /\ TaskRuns
    /\ cons[w].st \in {"idle", "register"}
    /\ cell' = [cell EXCEPT ![CellOf(CellChannel)] = {w}]
    /\ cons' = [cons EXCEPT ![w].st = "suspended", ![w].woken = FALSE]
    /\ UNCHANGED <<regVars, isr, sig, restOfWaker>>

\* a deregistration that leaves the cell as it is
CellStop_Stays(w, deregister) ==
    /\ TaskRuns
    /\ cons[w].st = "suspended"
    /\ cons' = [cons EXCEPT ![w].st =
                  IF deregister THEN "deregistered" ELSE "abandoned"]
    /\ UNCHANGED <<cell, regVars, isr, sig, restOfWaker>>

\* the suspended context w stops waiting. It deregisters, which writes "no
\* one waiting" to the cell, or it abandons the wait and leaves the cell
\* alone; the context is not used for another wait
CellStop(w, deregister) ==
    /\ TaskRuns
    /\ cons[w].st = "suspended"
    /\ cell' = IF deregister THEN [cell EXCEPT ![CellOf(CellChannel)] = {}]
               ELSE cell
    /\ cons' = [cons EXCEPT ![w].st =
                  IF deregister THEN "deregistered" ELSE "abandoned"]
    /\ UNCHANGED <<regVars, isr, sig, restOfWaker>>

\* the task arms the channel for a transfer, and clears the completion of
\* the transfer before when the channel is used again
CellTask ==
    /\ TaskRuns
    /\ \/ SetInterruptOnCompletion(CellChannel)
       \/ Enable(CellChannel)
       \/ ClearComplete(CellChannel)

CellNext ==
    \/ CellTask
    \/ \E w \in Waiters :
        \/ CellRegister(w)
        \/ \E deregister \in BOOLEAN : CellStop(w, deregister)
        \/ ConsumerResume(w)
    \/ \E j \in Chan :
        \/ HwFinish(j, FALSE)
        \/ IsrEnter(j)
        \/ IsrSignal(j)

SpecCell == WakerInit /\ [][CellNext]_vars

\* C25: a consumer that stopped waiting and deregistered is resumed by no
\* later signal: once a context has deregistered, no step (and so no signal
\* of the interrupt path, of the transfer it left or of a later transfer of
\* the reused channel) wakes it, and it is held by no cell.
C25_DeregisteredNotResumed ==
    [][\A w \in Waiters :
          cons[w].st = "deregistered" =>
              /\ cons'[w] = cons[w]
              /\ \A j \in Chan : w \notin cell[j] /\ w \notin cell'[j]]_vars

\* a context deregistered without having been signalled, the channel was
\* used again by the other context, and the signal of the interrupt path
\* reached the other context only
C25_Witness ==
    \E w \in Waiters, v \in Waiters :
        /\ cons[w].st = "deregistered" /\ cons[w].wakes = 0 /\ ~cons[w].woken
        /\ cons[v].wakes = 1 /\ cons[v].by = {CellChannel}
        /\ sig[CellChannel] = 1 /\ isr[CellChannel] = "idle"

\* C26: the cell holds at most one waiting context; a registration replaces
\* what the cell held, so that after two registrations the cell holds the
\* last-registered context; the signal of the interrupt path resumes the
\* context the cell holds and no other, and no one when the cell is empty.
C26_LastRegisteredOnly ==
    /\ [](\A j \in Chan : Cardinality(cell[j]) <= 1)
    /\ [][\A w \in Waiters :
            /\ CellRegister(w) => cell'[CellOf(CellChannel)] = {w}
            /\ \A j \in Chan :
                  IsrSignal(j) =>
                      /\ cons'[w] # cons[w] => cell[j] = {w}
                      /\ (cons'[w].woken /\ ~cons[w].woken) => cell[j] = {w}
                      /\ (is_complete_impl(j) /\ cell[j] = {w}) =>
                            cons'[w].woken /\ cell'[j] = {}]_vars

\* two contexts registered in the cell one after the other, the channel's
\* transfer ended and the interrupt path signalled: the last-registered
\* context is woken, the replaced one still waits unsignalled
C26_Witness ==
    \E w \in Waiters, v \in Waiters :
        /\ cons[w].st = "suspended" /\ ~cons[w].woken /\ cons[w].wakes = 0
        /\ \A j \in Chan : cell[j] = {}
        /\ cons[v].st = "suspended" /\ cons[v].woken /\ cons[v].by = {CellChannel}
        /\ sig[CellChannel] = 1

-----------------------------------------------------------------------------
(* Disabling an armed channel *)

\* C27: disable() is accepted in every channel state the task can call it
\* in; when it returns the channel's enable-request bit is clear; the bit is
\* set again by an enable() of that channel only; and while it is clear the
\* engine begins a minor loop of the channel only for a software start,
\* never for the pending hardware request.
C27_DisabledUntilEnabled ==
    [][\A i \in Chan :
          /\ Disable(i) => ~is_enabled_impl(i)'
          /\ (last'.op = "disable" /\ last'.ch = i /\ last' # last) =>
                ~is_enabled_impl(i)'
          /\ (~is_enabled_impl(i) /\ is_enabled_impl(i)') =>
                (last'.op = "enable" /\ last'.ch = i)
          /\ (~is_enabled_impl(i) /\ ~is_active_impl(i) /\ is_active_impl(i)') =>
                CSR_START \in tcd[i].CSR]_vars

\* the task disabled the helpers' channel in the middle of a transfer of
\* two elements: one minor loop has run, the peripheral's next request is
\* pending, and the channel is idle and disabled
C27_Witness ==
    /\ last = [op |-> "disable", ch |-> HelperChannel, by |-> "task"]
    /\ ~is_enabled_impl(HelperChannel) /\ ~is_active_impl(HelperChannel)
    /\ HelperChannel \in HRS
    /\ tcd[HelperChannel].BITER = 2 /\ tcd[HelperChannel].CITER = 1

-----------------------------------------------------------------------------
(* Resetting a descriptor *)

\* C28: reset() leaves every field of the channel's transfer descriptor
\* zero, whatever the descriptor held and whatever the channel was doing,
\* and writes nothing else; it is idempotent: called on a descriptor that
\* is zero already it changes no register.
C28_ResetZero ==
    [][\A i \in Chan :
          Reset(i) =>
              /\ tcd'[i] = TcdZero
              /\ \A j \in Chan \ {i} : tcd'[j] = tcd[j]
              /\ <<ERQ, ERR, INT, HRS, ES, chan, chcfg>>'
                    = <<ERQ, ERR, INT, HRS, ES, chan, chcfg>>
              /\ tcd[i] = TcdZero => tcd' = tcd]_vars

\* reset() on the eDMA3/eDMA4 layout in the middle of a minor loop of a
\* transfer a helper had programmed: the descriptor is zero
C28_Witness ==
    /\ last.op = "reset" /\ kind = "EDma3_EDma4" /\ periph
    /\ is_active_impl(last.ch) /\ is_enabled_impl(last.ch)
    /\ tcd[last.ch] = TcdZero

-----------------------------------------------------------------------------
(* The descriptor of a hardware register *)

\* the statements the running or returned helper has executed
Executed == {log[n] : n \in DOMAIN log}

\* C29: hardware(address) describes the address with stride 0, wraparound 0
\* and end adjustment 0, for every address. Installed on the source side
\* (peripheral_receive) or on the destination side (peripheral_transfer),
\* the side's working address is the register's address after every minor
\* loop and after the completion of the major loop: in every state from the
\* installing statement on, and across every step of the engine on a side
\* with stride 0 and end adjustment 0.
C29_HardwareAddressFixed ==
    /\ [](\A a \in AddressInputs \cup {PeripheralRegister} :
            hardware(a) =
              [tag |-> "Some",
               transfer |-> [address |-> a, offset |-> 0, modulo |-> 0,
                             last_address_adjustment |-> 0]])
    /\ []((call.dir = "peripheral_receive" /\ "set_source_transfer" \in Executed) =>
            /\ tcd[call.ch].SADDR = PeripheralRegister
            /\ tcd[call.ch].SOFF = 0 /\ tcd[call.ch].SLAST = 0
            /\ tcd[call.ch].SATTR = AttrOf(call.esize, 0))
    /\ []((call.dir = "peripheral_transfer" /\ "set_destination_transfer" \in Executed) =>
            /\ tcd[call.ch].DADDR = PeripheralRegister
            /\ tcd[call.ch].DOFF = 0 /\ tcd[call.ch].DLAST_SGA = 0
            /\ tcd[call.ch].DATTR = AttrOf(call.esize, 0))
    /\ [][\A i \in Chan :
            HwMinorLoop(i) =>
                /\ (tcd[i].SOFF = 0 /\ tcd[i].SLAST = 0) => tcd'[i].SADDR = tcd[i].SADDR
                /\ (tcd[i].DOFF = 0 /\ tcd[i].DLAST_SGA = 0) => tcd'[i].DADDR = tcd[i].DADDR]_vars

\* peripheral_receive of two elements has completed: the destination is
\* back at the start of the buffer, the source is still the register
C29_Witness ==
    /\ call.dir = "peripheral_receive" /\ call.len = 2 /\ ret.tag = "Ok"
    /\ is_complete_impl(call.ch) /\ ~is_active_impl(call.ch)
    /\ tcd[call.ch].SADDR = PeripheralRegister
    /\ tcd[call.ch].DADDR = BufferAddress

-----------------------------------------------------------------------------
(* The byte count of the minor loop *)

\* len * esize as a number, in two digits of base 2^16: the high digit is
\* not reduced, and is 2^16 or more exactly when the product is 2^32 or more
ProductOf(len, esize) ==
    <<(len \div Limb) * esize + (((len % Limb) * esize) \div Limb),
      ((len % Limb) * esize) % Limb>>

\* the step leaves every descriptor field of channel i but NBYTES, and
\* every other descriptor, as it was
OnlyNBYTES(i) ==
    /\ [tcd'[i] EXCEPT !.NBYTES = tcd[i].NBYTES] = tcd[i]
    /\ \A j \in Chan \ {i} : tcd'[j] = tcd[j]

\* the task sets the minor loop and the iteration counts of the helpers'
\* channel, in any order and any number of times
MinorLoopNext ==
    \/ \E esize \in ElementSizes, len \in ElementCounts, checks \in BOOLEAN :
          SetMinorLoopElements(HelperChannel, esize, len, checks)
    \/ \E n \in IterationCounts : SetTransferIterations(HelperChannel, n)
    \/ SetDisableOnCompletion(HelperChannel)

SpecMinorLoop == Init /\ [][MinorLoopNext]_vars

\* C30 as stated: for every element size and every element count,
\* set_minor_loop_elements programs NBYTES to the product of the count and
\* the size, and changes no other descriptor field.
C30_AsStated ==
    [][\A esize \in ElementSizes, len \in ElementCounts, checks \in BOOLEAN :
          SetMinorLoopElements(HelperChannel, esize, len, checks) =>
              /\ tcd'[HelperChannel].NBYTES = ProductOf(len, esize)
              /\ OnlyNBYTES(HelperChannel)]_vars

\* C30 amended: for every element size and every element count whose
\* product is below 2^32, set_minor_loop_elements programs NBYTES to the
\* product of the count and the size, in either build, and changes no other
\* descriptor field.
C30_MinorLoopBytes ==
    [][\A esize \in ElementSizes, len \in ElementCounts, checks \in BOOLEAN :
          (SetMinorLoopElements(HelperChannel, esize, len, checks)
             /\ ProductOf(len, esize)[1] < Limb) =>
              /\ last'.op = "set_minor_loop_elements"
              /\ tcd'[HelperChannel].NBYTES = ProductOf(len, esize)
              /\ OnlyNBYTES(HelperChannel)]_vars

\* the minor loop was set to 2^29 - 1 elements of eight bytes, 2^32 - 8
\* bytes, on a channel whose iteration counts had been set to 32
C30_Witness ==
    /\ last = [op |-> "set_minor_loop_elements", ch |-> HelperChannel, by |-> "task"]
    /\ tcd[HelperChannel].NBYTES = U32(Limb - 1, Limb - 8)
    /\ tcd[HelperChannel].CITER = 32 /\ tcd[HelperChannel].BITER = 32

-----------------------------------------------------------------------------
(* The frame of enable and disable *)

\* C31: on both register layouts, enable() and disable() on channel i change
\* the enable-request bit of channel i only: the completion, error and
\* interrupt flags of channel i, and all four of every other channel, are
\* after the call what they were before it, also when the completion flag
\* of channel i is set at the call.
C31_AsStated ==
    [][\A i \in FlagChannels :
         /\ Enable(i) =>
              /\ FlagsOfNext(i) = [FlagsOf(i) EXCEPT !.enabled = TRUE]
              /\ \A j \in Chan \ {i} : FlagsOfNext(j) = FlagsOf(j)
         /\ Disable(i) =>
              /\ FlagsOfNext(i) = [FlagsOf(i) EXCEPT !.enabled = FALSE]
              /\ \A j \in Chan \ {i} : FlagsOfNext(j) = FlagsOf(j)]_vars

-----------------------------------------------------------------------------
(* The engine and a helper's descriptor writes *)

\* the helper running on channel i has written the first descriptor field
\* and has not yet enabled the channel
Rewriting(i) ==
    /\ pc # << >> /\ call.ch = i
    /\ "set_source_transfer" \in Executed
    /\ "enable" \notin Executed

\* C32: across any sequence of helper calls on one channel, also when a call
\* is made while the channel is still enabled from the transfer before, the
\* engine never begins the service of a request of the channel while a
\* helper is between its first descriptor write and its enable write.
C32_AsStated ==
    [][\A i \in Chan : HwService(i) => ~Rewriting(i)]_vars

-----------------------------------------------------------------------------
(* The register slot a channel operation resolves to: a driver for one      *)
(* controller hands out a Channel, and the Channel's operations index the   *)
(* controller's register block with the Channel's index                     *)

\* the controllers of ral::Kind
Controllers == {"EDma", "EDma3", "EDma4"}

\* the entries of the TCD array of each RegisterBlock, and of dmamux's chcfg
TCD_ENTRIES == 32

\* the request status bits of one HRS register
HRS_BITS == 32

\* the channels a controller's register block describes: one request status
\* bit and one group priority each
ChannelsOf(controller) == IF controller = "EDma4" THEN 64 ELSE 32

\* CHANNELS of Dma<CHANNELS>: the controller's channels, or the first few
ChannelCounts(controller) == {Channels, ChannelsOf(controller)}

\* the indexes asked for: both ends of each range and the first past each
SlotInputs == {0, 1, Channels, TCD_ENTRIES - 1, TCD_ENTRIES, 63, 64}

SlotOps ==
    {"tcd", "enable", "disable", "is_complete", "is_error", "is_interrupt",
     "is_hardware_signaling", "set_channel_configuration"}

\* array[index]: a checked index into an array of TCD_ENTRIES entries
Indexed(array, index) ==
    IF index < TCD_ENTRIES
    THEN [tag |-> "Slot", reg |-> array, at |-> index]
    ELSE [tag |-> "Panic", reg |-> array, at |-> index]

\* Kind::is_hardware_signaling, is_hardware_signaling_impl: the register and
\* the bit that is read; `1 << index` overflows for an index of 32 or more
Kind_is_hardware_signaling(controller, index) ==
    IF controller = "EDma4"
    THEN IF index < HRS_BITS
         THEN [tag |-> "Slot", reg |-> "HRS_LOW", at |-> index]
         ELSE IF index \in HRS_BITS .. (2 * HRS_BITS - 1)
         THEN [tag |-> "Slot", reg |-> "HRS_HIGH", at |-> index - HRS_BITS]
         ELSE [tag |-> "Unreachable", reg |-> "HRS", at |-> index]
    ELSE IF index < HRS_BITS
         THEN [tag |-> "Slot", reg |-> "HRS", at |-> index]
         ELSE [tag |-> "Panic", reg |-> "HRS", at |-> index]

\* the register slot the operation reaches on the Channel with this index
Resolve(controller, op, index) ==
    IF op = "is_hardware_signaling"
    THEN Kind_is_hardware_signaling(controller, index)
    ELSE IF controller = "EDma"
    THEN CASE op \in {"tcd", "is_complete"} -> Indexed("TCD", index)
           [] op = "set_channel_configuration" -> Indexed("chcfg", index)
           [] op = "enable" -> [tag |-> "Slot", reg |-> "SERQ", at |-> index]
           [] op = "disable" -> [tag |-> "Slot", reg |-> "CERQ", at |-> index]
           [] op = "is_error" -> [tag |-> "Slot", reg |-> "ERR", at |-> index]
           [] op = "is_interrupt" -> [tag |-> "Slot", reg |-> "INT", at |-> index]
    ELSE Indexed("TCD", index)

\* Dma::channel(index) on a driver of xin.channels channels
SlotsChannel(index) ==
    /\ xout.tag = "Idle"
    /\ xout' = IF index < xin.channels
               THEN [tag |-> "Channel", op |-> "Dma_channel", index |-> index]
               ELSE [tag |-> "Panic", op |-> "Dma_channel", index |-> index]
    /\ UNCHANGED <<xin, restOfXfer>>

\* an operation on the Channel that was handed out
SlotsOperation(op) ==
    /\ xout.tag \in {"Channel", "Slot"}
    /\ xout' = [op |-> op, index |-> xout.index]
               @@ Resolve(xin.controller, op, xout.index)
    /\ UNCHANGED <<xin, restOfXfer>>

SlotsInit ==
    /\ RegInit /\ TaskInit /\ AllocIdle /\ WakerIdle /\ MuxIdle /\ MemIdle
    /\ \E controller \in Controllers :
          /\ kind = IF controller = "EDma" THEN "EDma" ELSE "EDma3_EDma4"
          /\ xin \in [controller : {controller}, channels : ChannelCounts(controller)]
    /\ xout = [tag |-> "Idle"]

SlotsNext ==
    \/ \E index \in SlotInputs : SlotsChannel(index)
    \/ \E op \in SlotOps : SlotsOperation(op)

SpecSlots == SlotsInit /\ [][SlotsNext]_vars

\* C33: for every index the channel constructor accepts, every channel
\* operation resolves to an existing register slot: none indexes past an
\* array of the register block, and none reaches the unreachable branch of
\* the hardware-signaling dispatch.
C33_AsStated ==
    (xout.tag # "Idle" /\ xout.op \in SlotOps) => xout.tag = "Slot"

-----------------------------------------------------------------------------
(* The source selector of the multiplexer configuration *)

\* the values of the u32 `source` a configuration is built from: DMAMUX
\* sources, and values that reach into the upper bits of the register
SourceValues == Sources \cup {0, 2^29 + 1, 2^30 + 1, 2^29 + 2^30 + 127}

\* Configuration::enable(source): Enable { source, periodic: false }
Configuration_enable(source) ==
    IF kind = "EDma"
    THEN [tag |-> "Enable", source |-> source, periodic |-> FALSE]
    ELSE [tag |-> "Enable", source |-> source]

SelectorNext ==
    \E source \in SourceValues : MuxConfigure(Configuration_enable(source))

SpecSelector == MuxInit /\ [][SelectorNext]_vars

\* C34: on the controller with the separate multiplexer, for every value of
\* the source selector and on every channel index, a configuration
\* Enable { source, periodic: false } is written with the periodic-trigger
\* bit (30) and the always-on bit (29) of the register clear.
C34_AsStated ==
    (kind = "EDma" /\ mux.tag # "Idle") =>
        /\ mux.tag = "Written"
        /\ TRIG \notin mux.value /\ A_ON \notin mux.value

-----------------------------------------------------------------------------
(* A rejected multiplexer configuration: the multiplexer registers of the   *)
(* channels on both sides of the periodic-trigger limit                     *)

\* the channel indexes whose multiplexer registers are followed
MuxIndexes == {PERIODIC_CHANNELS - 1, PERIODIC_CHANNELS, CHANNEL_COUNT - 1}

\* Channel::set_channel_configuration on the eDMA, with its outcome kept:
\* the assertion comes before the write, so a call that panics has written
\* nothing
set_channel_configuration(i, configuration) ==
    LET w == set_channel_configuration_impl(i, configuration)
    IN  /\ mux' = [index |-> i, configuration |-> configuration] @@ w
        /\ chcfg' = IF w.tag = "Written" THEN [chcfg EXCEPT ![i] = w.value]
                    ELSE chcfg
        /\ UNCHANGED <<tcd, ERQ, ERR, INT, HRS, ES, chan>>
        /\ UNCHANGED <<kind, taskVars, last, xferVars, allocVars, wakerVars, mem>>

RejectInit ==
    /\ kind = "EDma"
    /\ tcd = [i \in Chan |-> TcdZero]
    /\ ERQ = {} /\ ERR = {} /\ INT = {} /\ HRS = {} /\ ES = {}
    /\ chan = [i \in Chan |-> ChanZero]
    /\ chcfg = [i \in MuxIndexes |-> {}]
    /\ TaskInit /\ XferIdle /\ AllocIdle /\ WakerIdle /\ MuxIdle /\ MemIdle

RejectNext ==
    \E i \in MuxIndexes, configuration \in Configurations :
        set_channel_configuration(i, configuration)

SpecReject == RejectInit /\ [][RejectNext]_vars

\* C35: a configuration that asks for periodic triggering on a channel
\* index of 4 or more is rejected, and the call leaves the multiplexer
\* register of the channel, the multiplexer registers of the other channels
\* and every other register as they were before it.
C35_RejectedWritesNothing ==
    [][\A i \in MuxIndexes, configuration \in Configurations :
          (/\ set_channel_configuration(i, configuration)
           /\ configuration.tag = "Enable" /\ configuration.periodic
           /\ i >= 4) =>
              /\ mux'.tag = "Panic"
              /\ chcfg' = chcfg
              /\ <<tcd, ERQ, ERR, INT, HRS, ES, chan>>'
                    = <<tcd, ERQ, ERR, INT, HRS, ES, chan>>]_vars

\* periodic triggering was rejected on channel 4, whose register still
\* holds the always-on configuration written before, beside a channel 3
\* that is triggered periodically
C35_Witness ==
    /\ mux.tag = "Panic" /\ mux.index = PERIODIC_CHANNELS
    /\ chcfg[PERIODIC_CHANNELS] = {ENBL, A_ON}
    /\ TRIG \in chcfg[PERIODIC_CHANNELS - 1]

-----------------------------------------------------------------------------
(* The frame of reset *)

\* C36: reset() on channel i writes the transfer descriptor of channel i
\* only: the descriptors of the other channels, the enable-request, error
\* and interrupt registers, the request status, the error status, the
\* per-channel control registers and the multiplexer configuration are
\* after the call what they were before it.
C36_ResetFrame ==
    [][\A i \in Chan :
          Reset(i) =>
              /\ \A j \in Chan \ {i} :
                    /\ tcd'[j] = tcd[j]
                    /\ ObservedOfNext(j) = ObservedOf(j)
              /\ ERQ' = ERQ /\ ERR' = ERR /\ INT' = INT
              /\ HRS' = HRS /\ ES' = ES
              /\ chan' = chan /\ chcfg' = chcfg
              /\ is_enabled_impl(i)' = is_enabled_impl(i)
              /\ is_error_impl(i)' = is_error_impl(i)
              /\ MuxRouted(i)' = MuxRouted(i)]_vars

\* reset() of the helpers' channel, which stays enabled and routed to the
\* peripheral, while the software channel has a started descriptor and an
\* error that are both still there
C36_Witness ==
    /\ last = [op |-> "reset", ch |-> HelperChannel, by |-> "task"]
    /\ tcd[HelperChannel] = TcdZero
    /\ is_enabled_impl(HelperChannel) /\ MuxRouted(HelperChannel)
    /\ is_error_impl(SoftwareChannel)
    /\ tcd[SoftwareChannel] # TcdZero

-----------------------------------------------------------------------------
(* Installing the two descriptors of a channel, in any order *)

\* Installs followed in one run, after the counts of the channel were set
MaxInstalls == 3

\* the descriptors that are installed: of a register, of a linear buffer
\* and of a circular buffer of four elements
InstallTransfers(esize) ==
    {hardware(PeripheralRegister).transfer,
     buffer_linear(BufferAddress, UsizeOf(MaxLen), esize, FALSE).transfer,
     buffer_circular(BufferAddress, Pow2U32(2), esize, FALSE).transfer}

\* set_source_transfer::<E> or set_destination_transfer::<E> on channel i,
\* with the call kept in the log
Install(i, side, t, esize) ==
    /\ pc = << >> /\ Len(log) < MaxInstalls
    /\ IF side = "source"
       THEN set_source_transfer(i, t, esize)
       ELSE set_destination_transfer(i, t, esize)
    /\ log' = Append(log, [side |-> side, transfer |-> t, esize |-> esize])
    /\ last' = [op |-> IF side = "source" THEN "set_source_transfer"
                       ELSE "set_destination_transfer",
                ch |-> i, by |-> "task"]
    /\ UNCHANGED <<periph, pc, call, es, ret, kind, restOfMain>>

InstallNext ==
    \/ \E side \in {"source", "destination"}, esize \in {1, 4} :
          \E t \in InstallTransfers(esize) : Install(HelperChannel, side, t, esize)
    \/ log = << >> /\ SetMinorLoopElements(HelperChannel, 4, 1, FALSE)
    \/ log = << >> /\ SetTransferIterations(HelperChannel, 2)
    \/ log = << >> /\ SetDisableOnCompletion(HelperChannel)

SpecInstall == Init /\ [][InstallNext]_vars

\* the four fields of each side of a descriptor
SideFields(side, t) ==
    IF side = "source" THEN <<t.SADDR, t.SOFF, t.SATTR, t.SLAST>>
    ELSE <<t.DADDR, t.DOFF, t.DATTR, t.DLAST_SGA>>

\* the four fields an install writes
InstalledFields(call_) ==
    <<call_.transfer.address, call_.transfer.offset,
      AttrOf(call_.esize, call_.transfer.modulo),
      call_.transfer.last_address_adjustment>>

\* the positions of the installs of a side in the log
InstallsOf(side) == {n \in DOMAIN log : log[n].side = side}

OtherSide(side) == IF side = "source" THEN "destination" ELSE "source"

\* C37: an install of a source descriptor changes the source address,
\* offset, attributes and end adjustment only, an install of a destination
\* descriptor the destination's four only, and nothing outside the
\* descriptor; so the installs commute: whatever the order of the installs,
\* each side holds what the last install of that side wrote.
C37_InstallsCommute ==
    /\ [](\A side \in {"source", "destination"} :
            InstallsOf(side) # {} =>
               LET n == CHOOSE m \in InstallsOf(side) :
                           \A k \in InstallsOf(side) : k <= m
               IN  SideFields(side, tcd[HelperChannel]) = InstalledFields(log[n]))
    /\ [][\A side \in {"source", "destination"}, esize \in {1, 4} :
            \A t \in InstallTransfers(esize) :
               Install(HelperChannel, side, t, esize) =>
                  /\ SideFields(OtherSide(side), tcd'[HelperChannel])
                        = SideFields(OtherSide(side), tcd[HelperChannel])
                  /\ tcd'[HelperChannel].NBYTES = tcd[HelperChannel].NBYTES
                  /\ tcd'[HelperChannel].CITER = tcd[HelperChannel].CITER
                  /\ tcd'[HelperChannel].BITER = tcd[HelperChannel].BITER
                  /\ tcd'[HelperChannel].CSR = tcd[HelperChannel].CSR
                  /\ \A j \in Chan \ {HelperChannel} : tcd'[j] = tcd[j]
                  /\ <<ERQ, ERR, INT, HRS, ES, chan, chcfg>>'
                        = <<ERQ, ERR, INT, HRS, ES, chan, chcfg>>]_vars

\* the destination was installed before the source, on a channel whose
\* counts were set: both sides hold their descriptor, as they would after
\* the installs in the other order
C37_Witness ==
    /\ Len(log) = 2
    /\ log[1].side = "destination" /\ log[2].side = "source"
    /\ log[1].transfer = hardware(PeripheralRegister).transfer
    /\ log[2].transfer.offset = 4
    /\ tcd[HelperChannel].DADDR = PeripheralRegister
    /\ tcd[HelperChannel].SADDR = BufferAddress /\ tcd[HelperChannel].SOFF = 4
    /\ tcd[HelperChannel].CITER = 2 /\ tcd[HelperChannel].DATTR # tcd[HelperChannel].SATTR

-----------------------------------------------------------------------------
(* The peripheral's hooks in the scheduling helpers *)

EnableHooks == {"enable_destination", "enable_source"}

DisableHooks == {"disable_destination", "disable_source"}

\* C38: when peripheral_transfer / peripheral_receive returns an error, the
\* peripheral's DMA request generation, which the helper enabled with its
\* first statement, is still enabled: no statement the helper ran, and no
\* statement a helper ever has left to run, is a disable hook.
C38_PeripheralStaysEnabled ==
    /\ HelperFailed =>
          /\ periph
          /\ log[1] \in EnableHooks
          /\ Executed \cap DisableHooks = {}
    /\ \A n \in DOMAIN pc : pc[n] \notin DisableHooks

\* a receive returned an error after its whole error branch, with the
\* peripheral's requests still enabled
C38_Witness ==
    /\ HelperFailed /\ call.dir = "peripheral_receive"
    /\ log[1] = "enable_source" /\ log[Len(log)] = "clear_error"
    /\ periph

====
